---- MODULE Spec2Model ----
(***************************************************************************)
(* A model of the content-management backend in its three iterations:      *)
(*   "server"     src/server.js         (Express server, MongoDB or JSON)  *)
(*   "serverless" src/unnamed/part_000  (serverless function, MongoDB or   *)
(*                                       JSON, POST fallbacks)             *)
(*   "static"     src/unnamed/part_001  (first iteration, JSON file only)  *)
(*                                                                         *)
(* Three specifications share the module:                                  *)
(*   Spec       the projects REST handlers behind basicAuth, on the        *)
(*              document store and on the JSON file;                       *)
(*   AuthSpec   basicAuth alone, over many configured credentials and      *)
(*              Authorization headers;                                     *)
(*   ProxySpec  the life of one /api/pdf-proxy request.                    *)
(*                                                                         *)
(* Strings that the code takes apart (credentials, base64 tokens) are      *)
(* sequences of byte values; strings it only compares are TLA+ strings.    *)
(* A missing (undefined) field and an empty string are both falsy in every *)
(* test the handlers make; the model writes both as "".                    *)
(***************************************************************************)
EXTENDS Integers, Sequences, FiniteSets, TLC

VARIABLES
    variant,        \* which iteration of the server is running
    mongoUri,       \* TRUE iff MONGODB_URI / DATABASE_URL names a document store
    adminUser,      \* process.env.ADMIN_USER as bytes, <<>> when not configured
    adminPass,      \* process.env.ADMIN_PASS as bytes, <<>> when not configured
    fileShape,      \* what data/projects.json holds: missing, corrupt, noarray, ok
    fileProjects,   \* the projects array of the file when fileShape = "ok"
    mongoProjects,  \* the documents of the projects collection (unique id index)
    res,            \* the last response: route, status, whether an exception escaped
    body,           \* the projects array of the last GET /api/projects response
    authHeader,     \* AuthSpec: the Authorization header of the last request
    pc,             \* ProxySpec: where the proxy request stands
    url,            \* ProxySpec: the parsed req.query.url
    allowEnv,       \* ProxySpec: PDF_PROXY_ALLOWLIST, split at commas
    upstream,       \* ProxySpec: the upstream requests issued, in order
    resp,           \* ProxySpec: the upstream response being handled
    client,         \* ProxySpec: the client response (status, headers, bytes, ended)
    total,          \* ProxySpec: the closure's running byte count
    mongo,          \* MongoSpec: the connection globals and the requests inside ensure*
    race,           \* RaceSpec: the write requests in flight on the file backend
    stones,         \* StonesSpec: the power-stone store and the last response
    bulletins,      \* BulletinsSpec: the bulletin store and the last response
    board,          \* BoardSpec: the leaderboard collection and the last response
    highlights      \* the highlights collection and the last response

storeVars == <<fileShape, fileProjects, mongoProjects>>
configVars == <<variant, mongoUri, adminUser, adminPass>>
proxyVars == <<pc, url, allowEnv, upstream, resp, client, total>>
\* the variables of the other entities' specifications
restVars == <<mongo, race, stones, bulletins, board, highlights>>
vars == <<variant, mongoUri, adminUser, adminPass, fileShape, fileProjects,
          mongoProjects, res, body, authHeader, pc, url, allowEnv, upstream,
          resp, client, total, mongo, race, stones, bulletins, board, highlights>>

(***************************************************************************)
(* Bounds of the model.                                                    *)
(***************************************************************************)
\* the most records a projects store is let grow to
MaxRecords == 2
\* the longest configured user name or password, in bytes (AuthSpec)
MaxCredLen == 2
\* the most body chunks one upstream response delivers (ProxySpec)
MaxChunks == 2

(***************************************************************************)
(* basicAuth: the Authorization header, base64 and the split at ':'.       *)
(***************************************************************************)
COLON == 58
CredBytes == {97, 98, COLON}
PAD == 64

RECURSIVE base64Encode(_)
\* what a client sends for the bytes b: RFC 4648 sextets, PAD for '='
base64Encode(b) ==
    IF Len(b) = 0 THEN <<>>
    ELSE IF Len(b) = 1 THEN <<b[1] \div 4, (b[1] % 4) * 16, PAD, PAD>>
    ELSE IF Len(b) = 2 THEN
        <<b[1] \div 4, (b[1] % 4) * 16 + (b[2] \div 16), (b[2] % 16) * 4, PAD>>
    ELSE <<b[1] \div 4, (b[1] % 4) * 16 + (b[2] \div 16),
           (b[2] % 16) * 4 + (b[3] \div 64), b[3] % 64>>
         \o base64Encode(SubSeq(b, 4, Len(b)))

RECURSIVE base64Decode(_)
\* Buffer.from(token, 'base64'): sextets up to the first '=', four to three bytes
base64Decode(t) ==
    LET n == IF \E i \in 1..Len(t) : t[i] = PAD
             THEN (CHOOSE i \in 1..Len(t) : t[i] = PAD /\ \A j \in 1..(i-1) : t[j] # PAD) - 1
             ELSE Len(t)
        s == SubSeq(t, 1, n)
    IN  IF n < 2 THEN <<>>
        ELSE IF n = 2 THEN <<s[1] * 4 + (s[2] \div 16)>>
        ELSE IF n = 3 THEN <<s[1] * 4 + (s[2] \div 16), (s[2] % 16) * 16 + (s[3] \div 4)>>
        ELSE <<s[1] * 4 + (s[2] \div 16), (s[2] % 16) * 16 + (s[3] \div 4),
               (s[3] % 4) * 64 + s[4]>>
             \o base64Decode(SubSeq(s, 5, n))

RECURSIVE split(_, _)
\* String.prototype.split(sep): the segments between the separators
split(s, sep) ==
    IF \E i \in 1..Len(s) : s[i] = sep
    THEN LET i == CHOOSE k \in 1..Len(s) : s[k] = sep /\ \A j \in 1..(k-1) : s[j] # sep
         IN  <<SubSeq(s, 1, i - 1)>> \o split(SubSeq(s, i + 1, Len(s)), sep)
    ELSE <<s>>

\* the value of a destructured array element that is not there
Undefined == <<-1>>

NoHeader == [scheme |-> "", token |-> <<>>]
\* the header a client builds for user u and password p (RFC 7617)
BasicHeader(u, p) == [scheme |-> "Basic", token |-> base64Encode(u \o <<COLON>> \o p)]

\* header.split(' ')[1] || '': the second word, whatever the first is
headerToken(h) == h.token

\* const [user, pass] = Buffer.from(token, 'base64').toString().split(':')
parseCredentials(h) ==
    LET parts == split(base64Decode(headerToken(h)), COLON)
    IN  [user |-> parts[1], pass |-> IF Len(parts) >= 2 THEN parts[2] ELSE Undefined]

\* the strings over alphabet of at most n bytes
Strings(alphabet, n) == UNION {[1..k -> alphabet] : k \in 0..n}
\* user names hold no colon (RFC 7617); <<>> is a variable that is not set
ConfigUsers == Strings({97, 98}, MaxCredLen)
ConfigPasses == Strings(CredBytes, MaxCredLen)

\* the Authorization headers the requests of Spec carry; the configured
\* credentials are a:b when configured
SpecHeaders ==
    {NoHeader, BasicHeader(<<97>>, <<98>>), BasicHeader(<<97>>, <<97>>),
     BasicHeader(<<97>>, <<98, COLON, 97>>)}
\* the headers of AuthSpec: none, any scheme word before the token, and
\* tokens of credentials with and without a colon
AuthHeaders ==
    {NoHeader}
    \cup {[scheme |-> sch, token |-> base64Encode(u \o <<COLON>> \o p)] :
            sch \in {"Basic", "Bearer"}, u \in {<<97>>, <<98>>}, p \in ConfigPasses}
    \cup {[scheme |-> "Basic", token |-> base64Encode(u)] : u \in {<<97>>, <<97, 98>>}}

\* parseCredentials, evaluated once for each header of the model
credentialsOf == [h \in SpecHeaders \cup AuthHeaders |-> parseCredentials(h)]
credentials(h) == credentialsOf[h]

\* TRUE iff basicAuth calls next(); otherwise it answers 401 with the challenge
basicAuth(h) ==
    /\ adminUser # <<>>
    /\ adminPass # <<>>
    /\ credentials(h).user = adminUser
    /\ credentials(h).pass = adminPass

(***************************************************************************)
(* The projects store: data/projects.json and the projects collection.     *)
(***************************************************************************)
Variants == {"server", "serverless", "static"}
\* the ids requests name; no create of the model carries "p2"
Ids == {"p1", "p2"}
\* the ids `${type}-${Date.now()}` yields when the request carries none
GenIds == {"g1"}
AllIds == Ids \cup GenIds
Types == {"flagship", "existing", "upcoming"}
Titles == {"A", "B"}
\* title ascending; a missing title sorts first
TitleRank == [t \in Titles \cup {""} |-> IF t = "" THEN 0 ELSE IF t = "A" THEN 1 ELSE 2]

Body(id, title, description, image, type) ==
    [id |-> id, title |-> title, description |-> description, image |-> image,
     type |-> type]
\* the bodies POST /api/projects is sent; "" is a missing or empty field
CreateBodies ==
    {Body("p1", "A", "d", "i", "flagship"), Body("p1", "B", "d", "i", "existing"),
     Body("", "A", "d", "i", "upcoming"), Body("", "B", "d", "i", "bogus"),
     Body("p1", "", "d", "i", "flagship"), Body("p1", "A", "", "i", "existing"),
     Body("", "A", "d", "", "existing"), Body("p1", "B", "d", "i", ""),
     Body("", "", "", "", "")}
\* the bodies of an update: every field, no type, nothing
UpdateBodies ==
    {Body("p1", "B", "d", "i", "existing"), Body("g1", "A", "d", "i", ""),
     Body("", "", "", "", "")}
\* ?type= of GET /api/projects; "" is an absent parameter
QueryTypes == Types \cup {"bogus", ""}

\* Array.prototype.findIndex(p => p.id === id), 1-based; 0 is the code's -1
findIndex(items, id) ==
    IF \E i \in 1..Len(items) : items[i].id = id
    THEN CHOOSE i \in 1..Len(items) : items[i].id = id /\ \A j \in 1..(i-1) : items[j].id # id
    ELSE 0

\* Array.prototype.filter(p => p.type === type)
filterType(items, type) ==
    LET Test(p) == p.type = type IN SelectSeq(items, Test)

\* Array.prototype.filter(p => p.id !== id)
filterNotId(items, id) ==
    LET Test(p) == p.id # id IN SelectSeq(items, Test)

\* readDb: the parsed file, or { projects: [] } when reading or parsing fails
readDb ==
    IF fileShape \in {"missing", "corrupt"} THEN [hasProjects |-> TRUE, projects |-> <<>>]
    ELSE IF fileShape = "noarray" THEN [hasProjects |-> FALSE, projects |-> <<>>]
    ELSE [hasProjects |-> TRUE, projects |-> fileProjects]

\* what a handler leaves behind: the answer and the two stores
Outcome(status, shape, items, docs, escaped) ==
    [status |-> status, shape |-> shape, items |-> items, docs |-> docs,
     escaped |-> escaped, challenge |-> FALSE]
\* an answer that touches no store
Answer(status) == Outcome(status, fileShape, fileProjects, mongoProjects, FALSE)
\* res.set('WWW-Authenticate', 'Basic realm="Admin"'); res.status(401).send(...)
Unauthorized == [Answer(401) EXCEPT !.challenge = TRUE]
\* a TypeError (db.projects is undefined): caught by the handler's try/catch
\* in server and serverless (500), escaping the handler in static
Throws == Outcome(500, fileShape, fileProjects, mongoProjects, variant = "static")
\* writeDb(db): the file now holds { projects: items }
Written(status, items) == Outcome(status, "ok", items, mongoProjects, FALSE)
Stored(status, docs) == Outcome(status, fileShape, fileProjects, docs, FALSE)

\* ensureMongo: the projects collection, or null without a connection string
ensureMongo == variant # "static" /\ mongoUri

\* col.updateOne({ id }, { $set: doc }, { upsert: true })
upsertOne(docs, doc) == {d \in docs : d.id # doc.id} \cup {doc}

\* the sequences find(query).sort({ title: 1 }).toArray() may return for docs
sortedByTitle(docs) ==
    LET n == Cardinality(docs)
    IN  {s \in [1..n -> docs] :
            /\ \A i, j \in 1..n : i # j => s[i] # s[j]
            /\ \A i, j \in 1..n : i < j => TitleRank[s[i].title] <= TitleRank[s[j].title]}

\* mutant: serverless answers the collection's result even when it is empty
dbGetProjectsStoreOnly(type) ==
    IF ensureMongo
    THEN sortedByTitle(IF type \in Types THEN {d \in mongoProjects : d.type = type}
                       ELSE mongoProjects)
    ELSE {IF type \in Types THEN filterType(readDb.projects, type) ELSE readDb.projects}
\* dbGetProjects(type), and the GET handler of static: the arrays it may return
dbGetProjects(type) ==
    IF variant = "static"
    THEN {IF type \in {"flagship", "upcoming"}
          THEN filterType(readDb.projects, type) ELSE readDb.projects}
    ELSE IF ensureMongo
    THEN LET query == IF type \in Types THEN {d \in mongoProjects : d.type = type}
                      ELSE mongoProjects
         IN  IF variant = "serverless" /\ query = {}
             THEN {IF type \in Types
                   THEN filterType(readDb.projects, type) ELSE readDb.projects}
             ELSE sortedByTitle(query)
    ELSE {IF type \in Types THEN filterType(readDb.projects, type) ELSE readDb.projects}

\* id || `${type}-${Date.now()}`
newId(b, g) == IF b.id # "" THEN b.id ELSE g

item(id, b) ==
    [id |-> id, type |-> b.type, title |-> b.title, description |-> b.description,
     image |-> b.image]

\* mutant: a create that writes its item over whatever the file held
dbCreateProjectAlone(b, g) == Written(201, <<item(newId(b, g), b)>>)
\* dbCreateProject, and the body of static's POST handler after validation
dbCreateProject(b, g) ==
    LET it == item(newId(b, g), b)
        db == readDb
        existingIdx == findIndex(db.projects, it.id)
    IN  IF ensureMongo THEN Stored(201, upsertOne(mongoProjects, it))
        ELSE IF ~db.hasProjects THEN Throws
        ELSE IF variant = "static" THEN Written(201, Append(db.projects, it))
        ELSE IF existingIdx # 0
        THEN Written(201, [db.projects EXCEPT ![existingIdx] = it])
        ELSE Written(201, Append(db.projects, it))

\* { ...old, title, description, image, type: type || old.type }
merged(old, b) ==
    [id |-> old.id, type |-> IF b.type # "" THEN b.type ELSE old.type,
     title |-> b.title, description |-> b.description, image |-> b.image]

\* dbUpdateProject with the handler's 404, and static's PUT handler
dbUpdateProject(id, b) ==
    LET db == readDb
        idx == findIndex(db.projects, id)
    IN  IF ensureMongo
        THEN IF \E d \in mongoProjects : d.id = id
             THEN LET exists == CHOOSE d \in mongoProjects : d.id = id
                  IN  Stored(200, (mongoProjects \ {exists}) \cup {merged(exists, b)})
             ELSE Answer(404)
        ELSE IF ~db.hasProjects THEN Throws
        ELSE IF idx = 0 THEN Answer(404)
        ELSE Written(200, [db.projects EXCEPT ![idx] = merged(db.projects[idx], b)])

\* the status of a successful delete: 204 No Content, or 200 { deleted: true }
deleted == IF variant = "serverless" THEN 200 ELSE 204

\* dbDeleteProject with the handler's 404, and static's DELETE handler
dbDeleteProject(id) ==
    LET db == readDb
        kept == filterNotId(db.projects, id)
    IN  IF ensureMongo
        THEN IF \E d \in mongoProjects : d.id = id
             THEN Stored(deleted, {d \in mongoProjects : d.id # id})
             ELSE Answer(404)
        ELSE IF ~db.hasProjects THEN Throws
        ELSE IF variant = "static"
        THEN IF Len(kept) = Len(db.projects) THEN Answer(404) ELSE Written(204, kept)
        ELSE Written(IF Len(kept) < Len(db.projects) THEN deleted ELSE 404, kept)

RECURSIVE upsertAll(_, _)
\* for (const p of items) await col.updateOne({ id }, { $set: p }, { upsert: true })
upsertAll(docs, items) ==
    IF items = <<>> THEN docs
    ELSE upsertAll(upsertOne(docs, Head(items)), Tail(items))

\* importFromLocalToActiveProvider: the file's projects upserted into the collection
importFromLocalToActiveProvider ==
    IF ensureMongo THEN Stored(200, upsertAll(mongoProjects, readDb.projects))
    ELSE Answer(200)

(***************************************************************************)
(* The projects routes.                                                    *)
(***************************************************************************)
\* mutant: the title is not required
missingFieldsNoTitle(b) == b.description = "" \/ b.image = "" \/ b.type = ""
\* if (!title || !description || !image || !type)
missingFields(b) == b.title = "" \/ b.description = "" \/ b.image = "" \/ b.type = ""

\* POST /api/projects
postProjects(h, b, g) ==
    IF ~basicAuth(h) THEN Unauthorized
    ELSE IF missingFields(b) THEN Answer(400)
    ELSE dbCreateProject(b, g)

\* PUT /api/projects/:id
putProject(h, id, b) ==
    IF ~basicAuth(h) THEN Unauthorized ELSE dbUpdateProject(id, b)

\* DELETE /api/projects/:id
deleteProject(h, id) ==
    IF ~basicAuth(h) THEN Unauthorized ELSE dbDeleteProject(id)

\* POST /api/projects/update (serverless)
postProjectsUpdate(h, b) ==
    IF ~basicAuth(h) THEN Unauthorized
    ELSE IF b.id = "" THEN Answer(400)
    ELSE dbUpdateProject(b.id, b)

\* POST /api/projects/delete (serverless)
postProjectsDelete(h, id) ==
    IF ~basicAuth(h) THEN Unauthorized
    ELSE IF id = "" THEN Answer(400)
    ELSE dbDeleteProject(id)

\* POST and GET /api/projects/import (server, serverless)
projectsImport(h) ==
    IF ~basicAuth(h) THEN Unauthorized ELSE importFromLocalToActiveProvider

\* the handler of route op ends with outcome out
Apply(op, out) ==
    /\ Len(out.items) <= MaxRecords
    /\ Cardinality(out.docs) <= MaxRecords
    /\ fileShape' = out.shape
    /\ fileProjects' = out.items
    /\ mongoProjects' = out.docs
    /\ res' = [op |-> op, status |-> out.status, escaped |-> out.escaped,
               challenge |-> out.challenge]
    /\ body' = <<>>
    /\ UNCHANGED <<configVars, authHeader, proxyVars, restVars>>

GetProjects(type) ==
    /\ \E items \in dbGetProjects(type) : body' = items
    /\ res' = [op |-> "GET /api/projects", status |-> 200, escaped |-> FALSE,
               challenge |-> FALSE]
    /\ UNCHANGED <<configVars, storeVars, authHeader, proxyVars, restVars>>

PostProjects(h, b, g) == Apply("POST /api/projects", postProjects(h, b, g))

PutProject(h, id, b) == Apply("PUT /api/projects/:id", putProject(h, id, b))

DeleteProject(h, id) == Apply("DELETE /api/projects/:id", deleteProject(h, id))

PostProjectsUpdate(h, b) ==
    /\ variant = "serverless"
    /\ Apply("POST /api/projects/update", postProjectsUpdate(h, b))

PostProjectsDelete(h, id) ==
    /\ variant = "serverless"
    /\ Apply("POST /api/projects/delete", postProjectsDelete(h, id))

ProjectsImport(h) ==
    /\ variant # "static"
    /\ Apply("/api/projects/import", projectsImport(h))

(***************************************************************************)
(* GET /api/pdf-proxy (server and serverless carry the same handler).      *)
(* The handler and the callbacks it registers are functions from the       *)
(* request's state (a record of pc, upstream, resp, client, total) to its  *)
(* next state.                                                             *)
(***************************************************************************)
\* String.prototype.toLowerCase and trim on the strings the model uses
toLowerCase(s) ==
    CASE s = "WWW.W3.ORG" -> "www.w3.org"
      [] s = "Docs.Example" -> "docs.example"
      [] s = "Application/PDF" -> "application/pdf"
      [] s = "EN" -> "en"
      [] s = "Snake" -> "snake"
      [] s = "Whack" -> "whack"
      [] OTHER -> s
trim(s) ==
    CASE s = " Docs.Example " -> "Docs.Example"
      [] s = " " -> ""
      [] s = " b " -> "b"
      [] s = " Snake " -> "Snake"
      [] s = " Whack " -> "Whack"
      [] s = " a " -> "a"
      [] OTHER -> s

\* a URL string: empty, unparseable, relative, or absolute with protocol and host
RawUrl(kind, protocol, host) == [kind |-> kind, protocol |-> protocol, host |-> host]
NoUrl == RawUrl("empty", "", "")
RawUrls ==
    {NoUrl, RawUrl("invalid", "", ""),
     RawUrl("absolute", "http:", "www.w3.org"), RawUrl("absolute", "http:", "evil.example"),
     RawUrl("absolute", "https:", "www.w3.org"), RawUrl("absolute", "https:", "WWW.W3.ORG"),
     RawUrl("absolute", "https:", "docs.example"), RawUrl("absolute", "https:", "evil.example")}
\* the values of a Location header; NoUrl when the header is absent or empty
Locations ==
    {NoUrl, RawUrl("invalid", "", ""), RawUrl("relative", "", ""),
     RawUrl("absolute", "https:", "www.w3.org"), RawUrl("absolute", "https:", "evil.example"),
     RawUrl("absolute", "http:", "www.w3.org")}

\* new URL(input, base): ok = FALSE stands for the TypeError it throws
TypeError == [ok |-> FALSE, protocol |-> "", hostname |-> ""]
NoBase == TypeError
newURL(input, base) ==
    CASE input.kind = "absolute" ->
            [ok |-> TRUE, protocol |-> input.protocol, hostname |-> toLowerCase(input.host)]
      [] input.kind \in {"relative", "empty"} /\ base.ok -> base
      [] OTHER -> TypeError

\* PDF_PROXY_ALLOWLIST split at commas; <<>> when the variable is unset or empty
AllowEnvs == {<<>>, <<" Docs.Example ", "">>, <<"www.w3.org", "docs.example">>, <<" ">>}
allowList ==
    LET pieces == IF allowEnv = <<>> THEN <<"www.w3.org">> ELSE allowEnv
    IN  {toLowerCase(trim(pieces[i])) : i \in 1..Len(pieces)} \ {""}
allowedAny(hostname) == TRUE
allowed(hostname) == toLowerCase(hostname) \in allowList

MAX == 25 * 1024 * 1024

\* an upstream response: status line and headers, then what became of its stream
Response(statusCode, location, contentType, contentLength) ==
    [statusCode |-> statusCode, location |-> location, contentType |-> contentType,
     contentLength |-> contentLength, destroyed |-> FALSE, chunks |-> 0]
NoUpstream == Response(0, NoUrl, "", 0)
ContentTypes ==
    {"", "text/html", "application/pdf", "Application/PDF", "text/html;x=application/pdf"}
ContentLengths == {0, 1, MAX + 1}
Responses ==
    {Response(200, NoUrl, ct, cl) : ct \in ContentTypes, cl \in ContentLengths}
    \cup {Response(302, l, ct, 0) : l \in Locations, ct \in {"text/html", "application/pdf"}}
ChunkSizes == {1, MAX}

\* the client response: res.statusCode, and what has gone out on the wire
NoClient ==
    [statusCode |-> 200, headersSent |-> FALSE, status |-> 0, text |-> "",
     bytes |-> 0, ended |-> FALSE]
\* what is on the wire once the head is flushed with the current statusCode
flushed(c) == [c EXCEPT !.headersSent = TRUE,
                        !.status = IF c.headersSent THEN c.status ELSE c.statusCode]
\* res.status(code).send(text) and res.status(code).end(text)
send(c, code, text) ==
    [flushed([c EXCEPT !.statusCode = code]) EXCEPT !.text = text, !.ended = TRUE]
\* res.write(chunk) of n bytes, res.end()
write(c, n) == [flushed(c) EXCEPT !.bytes = @ + n]
end(c) == [flushed(c) EXCEPT !.ended = TRUE]

includesAnything(ct) == TRUE
includesPdf(ct) == ct \in {"application/pdf", "text/html;x=application/pdf"}

\* function handle(upstream)
handle(p, r) ==
    LET ct == toLowerCase(r.contentType)
        cl == r.contentLength
    IN  IF ~includesPdf(ct)
        THEN [p EXCEPT !.client = send(@, 415, "not a pdf"),
                       !.resp = [r EXCEPT !.destroyed = TRUE], !.pc = "done"]
        ELSE IF cl # 0 /\ cl > MAX
        THEN [p EXCEPT !.client = send(@, 413, "file too large"),
                       !.resp = [r EXCEPT !.destroyed = TRUE], !.pc = "done"]
        ELSE [p EXCEPT !.resp = r, !.pc = "streaming"]

\* upstream.on('data'), upstream.on('end'), upstream.on('error')
onData(p, n) ==
    LET t == p.total + n
    IN  IF t > MAX
        THEN [p EXCEPT !.total = t, !.client = send(@, 413, "file too large"),
                       !.resp.destroyed = TRUE, !.resp.chunks = @ + 1, !.pc = "done"]
        ELSE [p EXCEPT !.total = t, !.client = write(@, n), !.resp.chunks = @ + 1]
onEnd(p) == [p EXCEPT !.client = end(@), !.pc = "done"]
onError(p) ==
    IF ~p.client.headersSent
    THEN [p EXCEPT !.client = send(@, 502, "stream error"), !.pc = "done"]
    ELSE [p EXCEPT !.pc = "done"]

\* https.get(url, cb): throws on a protocol other than https:, else issues the request
httpsGetThrows(u) == u.protocol # "https:"
httpsGet(p, u, next) ==
    [p EXCEPT !.upstream = Append(@, [protocol |-> u.protocol, hostname |-> u.hostname]),
              !.pc = next]

\* the callback of the first https.get
onResponse(p, r, u) ==
    IF r.statusCode >= 300 /\ r.statusCode < 400 /\ r.location # NoUrl
    THEN LET ru == newURL(r.location, u)
         IN  IF ~ru.ok \/ httpsGetThrows(ru)
             THEN [p EXCEPT !.client = send(@, 502, "bad redirect"), !.pc = "done"]
             ELSE httpsGet(p, ru, "fetch2")
    ELSE handle(p, r)
\* the callback of the https.get that follows the redirect
followAgain(p, r, u) == onResponse(p, r, u)
followCallback(p, r, u) == handle(p, r)
\* either request's on('error')
onRequestError(p) == [p EXCEPT !.client = send(@, 502, "fetch failed"), !.pc = "done"]

\* app.get('/api/pdf-proxy'): a fresh request state, validated, then fetched
NewRequest ==
    [pc |-> "idle", upstream |-> <<>>, resp |-> NoUpstream, client |-> NoClient, total |-> 0]
rejected(code, text) == [NewRequest EXCEPT !.client = send(@, code, text), !.pc = "done"]
pdfProxy(rawUrl) ==
    LET u == newURL(rawUrl, NoBase)
    IN  IF rawUrl = NoUrl THEN rejected(400, "url required")
        ELSE IF ~u.ok THEN rejected(400, "invalid url")
        ELSE IF u.protocol # "https:" THEN rejected(400, "https only")
        ELSE IF ~allowed(u.hostname) THEN rejected(403, "host not allowed")
        ELSE httpsGet(NewRequest, u, "fetch1")

(***************************************************************************)
(* The state after start-up.                                               *)
(***************************************************************************)
\* the files and collections a deployment may start with
InitFiles ==
    {<<"missing", <<>>>>, <<"corrupt", <<>>>>, <<"noarray", <<>>>>, <<"ok", <<>>>>,
     <<"ok", <<[id |-> "p1", type |-> "existing", title |-> "B",
                description |-> "d", image |-> "i"]>>>>}
InitDocs ==
    {{}, {[id |-> "g1", type |-> "flagship", title |-> "A",
           description |-> "d", image |-> "i"]}}

\* app.listen's callback in server: an empty collection is seeded from the file
seeded(docs) ==
    IF variant = "server" /\ mongoUri /\ docs = {}
    THEN upsertAll({}, readDb.projects) ELSE docs

NoResponse == [op |-> "none", status |-> 0, escaped |-> FALSE, challenge |-> FALSE]

\* the other entities' specifications have served nothing
NoMongo == <<>>
NoRace == <<>>
NoStones == <<>>
NoBulletins == <<>>
NoBoard == <<>>
NoHighlights == <<>>
RestIdle ==
    /\ mongo = NoMongo
    /\ race = NoRace
    /\ stones = NoStones
    /\ bulletins = NoBulletins
    /\ board = NoBoard
    /\ highlights = NoHighlights

\* no proxy request has been made
ProxyIdle ==
    /\ pc = NewRequest.pc
    /\ url = NoUrl
    /\ upstream = NewRequest.upstream
    /\ resp = NewRequest.resp
    /\ client = NewRequest.client
    /\ total = NewRequest.total

Init ==
    /\ variant \in Variants
    /\ mongoUri \in IF variant = "static" THEN {FALSE} ELSE BOOLEAN
    /\ adminUser = <<97>>
    /\ adminPass \in {<<>>, <<98>>}
    /\ \E f \in InitFiles : fileShape = f[1] /\ fileProjects = f[2]
    /\ \E docs \in IF mongoUri THEN InitDocs ELSE {{}} : mongoProjects = seeded(docs)
    /\ res = NoResponse
    /\ body = <<>>
    /\ authHeader = NoHeader
    /\ allowEnv = <<>>
    /\ ProxyIdle
    /\ RestIdle

\* a request that basicAuth turns away is answered before its body is read
bodiesFor(h, bodies) == IF basicAuth(h) THEN bodies ELSE {Body("", "", "", "", "")}
idsFor(h, ids) == IF basicAuth(h) THEN ids ELSE {"p1"}

Next ==
    \/ \E type \in QueryTypes : GetProjects(type)
    \/ \E h \in SpecHeaders, g \in GenIds :
          \E b \in bodiesFor(h, CreateBodies) : PostProjects(h, b, g)
    \/ \E h \in SpecHeaders :
          \E id \in idsFor(h, AllIds), b \in bodiesFor(h, UpdateBodies) : PutProject(h, id, b)
    \/ \E h \in SpecHeaders : \E id \in idsFor(h, AllIds) : DeleteProject(h, id)
    \/ \E h \in SpecHeaders : \E b \in bodiesFor(h, UpdateBodies) : PostProjectsUpdate(h, b)
    \/ \E h \in SpecHeaders : \E id \in idsFor(h, AllIds \cup {""}) : PostProjectsDelete(h, id)
    \/ \E h \in SpecHeaders : ProjectsImport(h)

Spec == Init /\ [][Next]_vars

(***************************************************************************)
(* AuthSpec: basicAuth in front of static's GET /admin, over the           *)
(* credentials a deployment may configure and the headers a client may     *)
(* send.                                                                   *)
(***************************************************************************)
\* GET /admin of static: basicAuth, then res.sendFile(admin.html)
GetAdmin(h) ==
    /\ authHeader' = h
    /\ res' = IF basicAuth(h)
              THEN [op |-> "GET /admin", status |-> 200, escaped |-> FALSE,
                    challenge |-> FALSE]
              ELSE [op |-> "GET /admin", status |-> 401, escaped |-> FALSE,
                    challenge |-> TRUE]
    /\ UNCHANGED <<configVars, storeVars, body, proxyVars, restVars>>

AuthInit ==
    /\ variant = "static"
    /\ mongoUri = FALSE
    /\ adminUser \in ConfigUsers
    /\ adminPass \in ConfigPasses
    /\ fileShape = "missing"
    /\ fileProjects = <<>>
    /\ mongoProjects = {}
    /\ res = NoResponse
    /\ body = <<>>
    /\ authHeader = NoHeader
    /\ allowEnv = <<>>
    /\ ProxyIdle
    /\ RestIdle

AuthNext == \E h \in AuthHeaders : GetAdmin(h)

AuthSpec == AuthInit /\ [][AuthNext]_vars

(***************************************************************************)
(* ProxySpec: /api/pdf-proxy requests, one at a time, each from the        *)
(* handler through the upstream callbacks to the end of its stream.        *)
(***************************************************************************)
\* the request in progress
proxy ==
    [pc |-> pc, upstream |-> upstream, resp |-> resp, client |-> client, total |-> total]
Become(p) ==
    /\ pc' = p.pc
    /\ upstream' = p.upstream
    /\ resp' = p.resp
    /\ client' = p.client
    /\ total' = p.total
    /\ UNCHANGED <<configVars, storeVars, res, body, authHeader, allowEnv, restVars>>

PdfProxy(rawUrl) ==
    /\ pc \in {"idle", "done"}
    /\ url' = rawUrl
    /\ Become(pdfProxy(rawUrl))
RequestError ==
    /\ pc \in {"fetch1", "fetch2"}
    /\ Become(onRequestError(proxy))
    /\ UNCHANGED url
OnResponse(r) ==
    /\ pc = "fetch1"
    /\ Become(onResponse(proxy, r, newURL(url, NoBase)))
    /\ UNCHANGED url
OnFollowResponse(r) ==
    /\ pc = "fetch2"
    /\ Become(followCallback(proxy, r, newURL(url, NoBase)))
    /\ UNCHANGED url
\* a chunk arrives: the parser delivers no more than a declared content-length
OnData(n) ==
    /\ pc = "streaming"
    /\ resp.chunks < MaxChunks
    /\ resp.contentLength = 0 \/ total + n <= resp.contentLength
    /\ Become(onData(proxy, n))
    /\ UNCHANGED url
OnEnd ==
    /\ pc = "streaming"
    /\ Become(onEnd(proxy))
    /\ UNCHANGED url
OnError ==
    /\ pc = "streaming"
    /\ Become(onError(proxy))
    /\ UNCHANGED url

ProxyInit ==
    /\ variant \in {"server", "serverless"}
    /\ mongoUri = FALSE
    /\ adminUser = <<>>
    /\ adminPass = <<>>
    /\ fileShape = "missing"
    /\ fileProjects = <<>>
    /\ mongoProjects = {}
    /\ res = NoResponse
    /\ body = <<>>
    /\ authHeader = NoHeader
    /\ allowEnv \in AllowEnvs
    /\ ProxyIdle
    /\ RestIdle

ProxyNext ==
    \/ \E rawUrl \in RawUrls : PdfProxy(rawUrl)
    \/ RequestError
    \/ \E r \in Responses : OnResponse(r)
    \/ \E r \in Responses : OnFollowResponse(r)
    \/ \E n \in ChunkSizes : OnData(n)
    \/ OnEnd
    \/ OnError

ProxySpec == ProxyInit /\ [][ProxyNext]_vars

(***************************************************************************)
(* Claims about the projects store and basicAuth.                          *)
(***************************************************************************)
\* the records of an array
Returned(items) == {items[i] : i \in 1..Len(items)}
\* the records the active backend holds
StoredProjects == IF ensureMongo THEN mongoProjects ELSE Returned(readDb.projects)
StoredIds == {p.id : p \in StoredProjects}

\* C1: the projects store never holds two records with the same id, whatever
\* creates, updates and deletes were served (a create of an id that exists
\* replaces the record).
C1_UniqueIds ==
    /\ \A i, j \in 1..Len(fileProjects) :
          i # j => fileProjects[i].id # fileProjects[j].id
    /\ \A d, e \in mongoProjects : d.id = e.id => d = e

\* the stores a GET /api/projects may be served from: the file, or with a
\* connection string the collection (serverless falls back to the file)
ServingStores ==
    IF ensureMongo THEN {mongoProjects, Returned(readDb.projects)}
    ELSE {Returned(readDb.projects)}

\* C2: GET /api/projects?type=t returns exactly the stored projects of type t
\* when t is flagship, existing or upcoming, and all stored projects otherwise.
C2_TypeFilter ==
    [][\A t \in QueryTypes :
          (res'.op = "GET /api/projects" /\ GetProjects(t)) =>
              \E stored \in ServingStores :
                  Returned(body') =
                      IF t \in {"flagship", "existing", "upcoming"}
                      THEN {p \in stored : p.type = t} ELSE stored]_vars

\* C3: an authenticated POST /api/projects without title, description, image
\* or type is answered 400 and changes neither the file nor the collection.
C3_MissingFieldRejected ==
    [][\A h \in SpecHeaders, b \in CreateBodies, g \in GenIds :
          (/\ res'.op = "POST /api/projects"
           /\ basicAuth(h)
           /\ (b.title = "" \/ b.description = "" \/ b.image = "" \/ b.type = "")
           /\ PostProjects(h, b, g))
          => (res'.status = 400 /\ UNCHANGED storeVars)]_vars

\* C3 witness: a create was answered 400 while the store held a record
C3_Witness ==
    /\ res.op = "POST /api/projects"
    /\ res.status = 400
    /\ StoredProjects # {}

\* C4: an authenticated delete of an id that is not stored is answered 404 and
\* leaves the stored records as they were, on either backend.
C4_DeleteMissing ==
    [][\A h \in SpecHeaders, id \in AllIds :
          (/\ res'.op = "DELETE /api/projects/:id"
           /\ basicAuth(h)
           /\ id \notin StoredIds
           /\ DeleteProject(h, id))
          => (res'.status = 404 /\ StoredProjects' = StoredProjects)]_vars

\* the credentials the clients of Spec put into their headers
SpecCredentials ==
    {[user |-> <<97>>, pass |-> <<98>>], [user |-> <<97>>, pass |-> <<97>>],
     [user |-> <<97>>, pass |-> <<98, COLON, 97>>]}

\* a step of an admin-protected projects route under header h
AdminStep(h) ==
    \/ \E b \in CreateBodies, g \in GenIds : PostProjects(h, b, g)
    \/ \E id \in AllIds, b \in UpdateBodies : PutProject(h, id, b)
    \/ \E id \in AllIds : DeleteProject(h, id)
    \/ \E b \in UpdateBodies : PostProjectsUpdate(h, b)
    \/ \E id \in AllIds \cup {""} : PostProjectsDelete(h, id)
    \/ ProjectsImport(h)

\* C5: a request to an admin route whose credentials are not the configured
\* ADMIN_USER and ADMIN_PASS (or that is made while one of them is not
\* configured) is answered 401 with the challenge and changes no store.
C5_WrongCredentialsRejected ==
    [][\A c \in SpecCredentials :
          (/\ res'.op \notin {"none", "GET /api/projects"}
           /\ (adminUser = <<>> \/ adminPass = <<>>
                 \/ c.user # adminUser \/ c.pass # adminPass)
           /\ AdminStep(BasicHeader(c.user, c.pass)))
          => (res'.status = 401 /\ res'.challenge /\ UNCHANGED storeVars)]_vars

\* C6: with ADMIN_USER and ADMIN_PASS configured, the header
\* Basic base64(ADMIN_USER ':' ADMIN_PASS) is never answered 401.
C6_RightCredentialsAdmitted ==
    (/\ res.op = "GET /admin"
     /\ adminUser # <<>>
     /\ adminPass # <<>>
     /\ authHeader = BasicHeader(adminUser, adminPass))
    => res.status # 401

(***************************************************************************)
(* Claims about the PDF proxy.                                             *)
(***************************************************************************)
\* the URL of the request in progress, as the handler parses it
RequestUrl == newURL(url, NoBase)
HostNotAllowed == pc # "idle" /\ RequestUrl.ok /\ RequestUrl.hostname \notin allowList

\* C7: a proxy request whose URL hostname is not in the allow-list is
\* answered 403, and no upstream request is issued for it.
C7_HostNotAllowed ==
    HostNotAllowed => (client.status = 403 /\ upstream = <<>>)

\* C7, amended: a proxy request whose URL hostname is not in the allow-list
\* never issues an upstream request; it is answered 403 when the URL is an
\* https URL, and 400 ("https only") before the host is looked at otherwise.
C7_HostNotAllowedHttps ==
    HostNotAllowed =>
        /\ upstream = <<>>
        /\ pc = "done" /\ client.ended
        /\ client.status = IF RequestUrl.protocol = "https:" THEN 403 ELSE 400
C7_Witness ==
    /\ url = RawUrl("absolute", "https:", "evil.example")
    /\ client.status = 403 /\ client.text = "host not allowed"
    /\ allowList # {}

\* C8: every upstream request issued for a proxy request, the follow of a
\* redirect included, targets an https URL whose hostname is in the allow-list.
C8_UpstreamAllowed ==
    \A i \in 1..Len(upstream) :
        upstream[i].protocol = "https:" /\ upstream[i].hostname \in allowList

\* C9: one proxy request issues at most two upstream requests, and a 3xx
\* response to the followed request is handled as the final response, never
\* followed again.
C9_AtMostOneFollow ==
    /\ Len(upstream) <= 2
    /\ (Len(upstream) = 2 /\ pc # "fetch2") => pc \in {"streaming", "done"}
C9_Witness ==
    /\ Len(upstream) = 2
    /\ resp.statusCode = 302 /\ resp.location # NoUrl
    /\ pc = "done"

\* the content-type values that contain application/pdf, in whatever case
PdfTypes == {"application/pdf", "Application/PDF", "text/html;x=application/pdf"}

\* C10: when the content-type of the upstream response that the proxy is to
\* deliver (the first response, or the response to the followed redirect)
\* does not contain application/pdf, the client receives 415, the upstream
\* stream is destroyed, and no byte of the upstream body reaches the client.
C10_NotPdfRejected ==
    (resp # NoUpstream /\ resp.contentType \notin PdfTypes) =>
        /\ client.status = 415 /\ client.ended
        /\ resp.destroyed
        /\ client.bytes = 0 /\ total = 0
C10_Witness ==
    /\ resp.contentType = "text/html" /\ resp.statusCode = 200
    /\ client.status = 415 /\ resp.destroyed

\* the upstream body is known to exceed the cap: its declared content-length
\* does, or the bytes received so far do
BodyTooLarge ==
    /\ resp # NoUpstream
    /\ resp.contentType \in PdfTypes
    /\ (resp.contentLength > MAX \/ total > MAX)

\* C11: when the upstream PDF body is larger than 25 MiB, whether declared in
\* content-length or discovered while streaming, the client receives status
\* 413, and never more than 25 MiB of body bytes.
C11_TooLargeRejected ==
    /\ client.bytes <= MAX
    /\ BodyTooLarge => client.status = 413

\* C12: a proxy request that passed validation and whose upstream events are
\* over has its client response completed (502 when nothing had been sent,
\* ended otherwise); it is never left open.
C12_ResponseCompleted ==
    (pc = "done" /\ upstream # <<>>) => client.ended

(***************************************************************************)
(* MongoSpec: ensureMongo and ensureHighlights under concurrent first       *)
(* requests.  A request runs from one await to the next without            *)
(* interruption; between awaits the requests interleave freely.  Objects   *)
(* are numbered in the order they are made, 0 is null.                     *)
(***************************************************************************)
\* the most requests that arrive while the connection is being set up
MaxRequests == 2
Requests == 1..MaxRequests
\* the ensure* function a handler enters
Entries == {"ensureMongo", "ensureHighlights"}

\* the module-level lets, the calls made so far, and where each request waits
MongoStart ==
    [mongoClient |-> 0, mongoDb |-> 0, projectsCol |-> 0, highlightsCol |-> 0,
     clients |-> 0, connects |-> 0,
     collections |-> [c \in {"projects", "highlights"} |-> 0],
     indexed |-> [c \in {"projects", "highlights"} |-> 0],
     entry |-> [r \in Requests |-> "none"],
     at |-> [r \in Requests |-> "idle"]]

\* ensureMongo up to `await mongoClient.connect()`
ensureMongoEnter(m, r) ==
    IF m.projectsCol # 0 THEN [m EXCEPT !.at[r] = "returned"]
    ELSE [m EXCEPT !.mongoClient = m.clients + 1, !.clients = @ + 1,
                   !.connects = @ + 1, !.at[r] = "connecting"]
\* ensureMongo from the connect to `await projectsCol.createIndex(..)`
ensureMongoConnected(m, r) ==
    [m EXCEPT !.mongoDb = m.mongoClient, !.projectsCol = m.mongoClient,
              !.collections["projects"] = @ + 1, !.indexed["projects"] = @ + 1,
              !.at[r] = "indexing"]
\* ensureHighlights after its `if (!mongoDb)` block
ensureHighlightsCol(m, r) ==
    IF m.highlightsCol = 0
    THEN [m EXCEPT !.highlightsCol = m.mongoDb,
                   !.collections["highlights"] = @ + 1,
                   !.indexed["highlights"] = @ + 1, !.at[r] = "hindexing"]
    ELSE [m EXCEPT !.at[r] = "done"]
\* ensureHighlights up to its first await
ensureHighlightsEnter(m, r) ==
    IF m.mongoDb = 0 THEN ensureMongoEnter(m, r) ELSE ensureHighlightsCol(m, r)

MongoStep(m) ==
    /\ mongo' = m
    /\ UNCHANGED <<configVars, storeVars, res, body, authHeader, proxyVars,
                   race, stones, bulletins, board, highlights>>

\* a request's handler calls ensureMongo or ensureHighlights
Enter(r, e) ==
    /\ mongo.at[r] = "idle"
    /\ LET m == [mongo EXCEPT !.entry[r] = e]
       IN  MongoStep(IF e = "ensureMongo" THEN ensureMongoEnter(m, r)
                     ELSE ensureHighlightsEnter(m, r))
\* mongoClient.connect() resolves
Connected(r) ==
    /\ mongo.at[r] = "connecting"
    /\ MongoStep(ensureMongoConnected(mongo, r))
\* projectsCol.createIndex resolves or rejects; ensureMongo returns projectsCol
Indexed(r) ==
    /\ mongo.at[r] = "indexing"
    /\ MongoStep([mongo EXCEPT !.at[r] = "returned"])
\* the caller's `await ensureMongo()` resumes
Resumed(r) ==
    /\ mongo.at[r] = "returned"
    /\ MongoStep(IF mongo.entry[r] = "ensureMongo" THEN [mongo EXCEPT !.at[r] = "done"]
                 ELSE ensureHighlightsCol(mongo, r))
\* the createIndex calls on highlightsCol resolve or reject
HighlightsIndexed(r) ==
    /\ mongo.at[r] = "hindexing"
    /\ MongoStep([mongo EXCEPT !.at[r] = "done"])

MongoInit ==
    /\ variant \in {"server", "serverless"}
    /\ mongoUri = TRUE
    /\ adminUser = <<>>
    /\ adminPass = <<>>
    /\ fileShape = "missing"
    /\ fileProjects = <<>>
    /\ mongoProjects = {}
    /\ res = NoResponse
    /\ body = <<>>
    /\ authHeader = NoHeader
    /\ allowEnv = <<>>
    /\ ProxyIdle
    /\ mongo = MongoStart
    /\ race = NoRace
    /\ stones = NoStones
    /\ bulletins = NoBulletins
    /\ board = NoBoard
    /\ highlights = NoHighlights

MongoNext ==
    \/ \E r \in Requests, e \in Entries : Enter(r, e)
    \/ \E r \in Requests : Connected(r)
    \/ \E r \in Requests : Indexed(r)
    \/ \E r \in Requests : Resumed(r)
    \/ \E r \in Requests : HighlightsIndexed(r)

MongoSpec == MongoInit /\ [][MongoNext]_vars

\* C13: under any interleaving of concurrent first requests the document-store
\* client is constructed and connected at most once, and each collection
\* handle is initialised, with its index creation, at most once.
C13_InitialisedOnce ==
    /\ mongo.clients <= 1
    /\ mongo.connects <= 1
    /\ \A c \in {"projects", "highlights"} :
          mongo.collections[c] <= 1 /\ mongo.indexed[c] <= 1

(***************************************************************************)
(* RaceSpec: concurrent project writes on the JSON file.  A write handler  *)
(* of server and serverless awaits ensureMongo() once; what follows, from  *)
(* readDb through writeDb (readFileSync, writeFileSync) to the response,   *)
(* runs in one turn of the event loop.                                     *)
(***************************************************************************)
WriteOp(kind, id, b) == [kind |-> kind, id |-> id, body |-> b]
NoOp == WriteOp("none", "", Body("", "", "", "", ""))
\* authenticated, valid write requests
RaceOps ==
    {WriteOp("create", "p2", Body("p2", "A", "d", "i", "flagship")),
     WriteOp("create", "p1", Body("p1", "A", "d", "i", "upcoming")),
     WriteOp("create", "g1", Body("", "B", "d", "i", "upcoming")),
     WriteOp("update", "p1", Body("", "A", "d", "i", "")),
     WriteOp("update", "p2", Body("", "B", "d", "i", "flagship")),
     WriteOp("delete", "p1", Body("", "", "", "", "")),
     WriteOp("delete", "p2", Body("", "", "", "", ""))}

\* no request yet: where each stands, what it asked, its status, the order of
\* the writes, and whether two requests were ever in flight together
RaceStart ==
    [at |-> [r \in Requests |-> "idle"], op |-> [r \in Requests |-> NoOp],
     status |-> [r \in Requests |-> 0], order |-> <<>>, together |-> FALSE]

\* the db* call of a write handler, from readDb on
dbWrite(o) ==
    CASE o.kind = "create" -> dbCreateProject(o.body, "g1")
      [] o.kind = "update" -> dbUpdateProject(o.id, o.body)
      [] o.kind = "delete" -> dbDeleteProject(o.id)

\* the handler up to `const col = await ensureMongo()`
Begin(r, o) ==
    /\ race.at[r] = "idle"
    /\ race' = [race EXCEPT !.at[r] = "awaiting", !.op[r] = o,
                            !.together = @ \/ \E q \in Requests : race.at[q] = "awaiting"]
    /\ UNCHANGED <<configVars, storeVars, res, body, authHeader, proxyVars,
                   mongo, stones, bulletins, board, highlights>>
\* the rest of the handler: readDb, the change, writeDb, the response
Write(r) ==
    /\ race.at[r] = "awaiting"
    /\ LET out == dbWrite(race.op[r])
       IN  /\ fileShape' = out.shape
           /\ fileProjects' = out.items
           /\ mongoProjects' = out.docs
           /\ race' = [race EXCEPT !.at[r] = "done", !.status[r] = out.status,
                                   !.order = Append(@, r)]
    /\ UNCHANGED <<configVars, res, body, authHeader, proxyVars,
                   mongo, stones, bulletins, board, highlights>>

RaceInit ==
    /\ variant \in {"server", "serverless"}
    /\ mongoUri = FALSE
    /\ adminUser = <<>>
    /\ adminPass = <<>>
    /\ \E f \in InitFiles : f[1] \in {"missing", "ok"} /\ fileShape = f[1] /\ fileProjects = f[2]
    /\ mongoProjects = {}
    /\ res = NoResponse
    /\ body = <<>>
    /\ authHeader = NoHeader
    /\ allowEnv = <<>>
    /\ ProxyIdle
    /\ mongo = NoMongo
    /\ race = RaceStart
    /\ stones = NoStones
    /\ bulletins = NoBulletins
    /\ board = NoBoard
    /\ highlights = NoHighlights

RaceNext ==
    \/ \E r \in Requests, o \in RaceOps : Begin(r, o)
    \/ \E r \in Requests : Write(r)

RaceSpec == RaceInit /\ [][RaceNext]_vars

\* every request has been answered
AllAnswered == \A r \in Requests : race.at[r] = "done"
Accepted(r) == race.status[r] \in {200, 201, 204}
\* what request r wrote is in the file
InFile(r) ==
    LET o == race.op[r]
        file == {fileProjects[i] : i \in 1..Len(fileProjects)}
    IN  CASE o.kind = "create" ->
                [id |-> o.id, type |-> o.body.type, title |-> o.body.title,
                 description |-> o.body.description, image |-> o.body.image] \in file
          [] o.kind = "update" ->
                \E p \in file : /\ p.id = o.id
                                /\ p.title = o.body.title
                                /\ o.body.type # "" => p.type = o.body.type
          [] o.kind = "delete" -> \A p \in file : p.id # o.id
          [] OTHER -> TRUE
\* a request that wrote after r changed the same record
WrittenOver(r) ==
    \E i, j \in 1..Len(race.order) :
        /\ i < j
        /\ race.order[i] = r
        /\ Accepted(race.order[j])
        /\ race.op[race.order[j]].id = race.op[r].id

\* C14: on the file backend two concurrent write requests interleave their
\* read and write of the file, so that of two requests in flight together the
\* one that wrote first is overwritten: although answered 2xx, its write is
\* missing from the file once both have finished.
C14_LastWriteWins ==
    (AllAnswered /\ race.together /\ \A r \in Requests : Accepted(r))
        => \E r \in Requests : ~InFile(r) /\ ~WrittenOver(r)

\* C14, amended: a write handler reads and writes the file in one turn, so
\* concurrent requests never interleave between the two: once all have
\* finished, every write answered 2xx is in the file, unless a request that
\* wrote later changed the same record.
C14_NoWriteLost ==
    AllAnswered => \A r \in Requests : Accepted(r) => (InFile(r) \/ WrittenOver(r))
C14_Witness ==
    /\ AllAnswered /\ race.together
    /\ \A r \in Requests : race.status[r] = 201 /\ InFile(r)
    /\ race.op[1].id # race.op[2].id

(***************************************************************************)
(* StonesSpec: the power-stone routes.  The collection has unique indexes  *)
(* on id and on slot; requests are served one after another.               *)
(***************************************************************************)
\* a JSON value of a request body: a number (in tenths, so 15 is 1.5), a
\* string, or a field that is missing
JNum(tenths) == [type |-> "number", n |-> tenths, s |-> ""]
JStr(str) == [type |-> "string", n |-> 0, s |-> str]
JUndefined == [type |-> "undefined", n |-> 0, s |-> ""]
\* Number.isInteger(v), and the integer it then is
isInteger(v) == v.type = "number" /\ v.n % 10 = 0
intOf(v) == v.n \div 10

StoneBody(id, slot, src, title) == [id |-> id, slot |-> slot, src |-> src, title |-> title]
\* the bodies POST /api/power-stones is sent: slots that are no integer in
\* 1..6, and slots 1 and 2 with and without an id, a usable src, a title
StoneBodies ==
    {StoneBody("", v, JStr("a"), "T") :
        v \in {JNum(0), JNum(70), JNum(-10), JNum(15), JStr("1"), JUndefined}}
    \cup {StoneBody(id, JNum(k), src, title) :
            id \in {"", "ps-2"}, k \in {10, 20},
            src \in {JStr("a"), JStr(" b "), JStr(" "), JUndefined}, title \in {"", "T"}}
StoneIds == {"ps-1", "ps-2", "ps-6", "nope"}
StoneHeaders == {NoHeader, BasicHeader(<<97>>, <<98>>)}

\* `ps-${slot}`
stoneId(slot) ==
    CASE slot = 1 -> "ps-1" [] slot = 2 -> "ps-2" [] slot = 3 -> "ps-3"
      [] slot = 4 -> "ps-4" [] slot = 5 -> "ps-5" [] slot = 6 -> "ps-6"
\* the six defaults that server seeds an empty collection with
StoneDefaults == {[id |-> stoneId(k), slot |-> k, src |-> "d", title |-> "D"] : k \in 1..6}

\* ensurePowerStones: the collection, or null without a connection string
ensurePowerStones == mongoUri

StoneAnswer(status, docs) == [status |-> status, docs |-> docs]

\* mutant: an insert where the code upserts by slot
insertStone(docs, doc) == StoneAnswer(201, docs \cup {doc})
\* mutant: the upsert on a collection without the unique index on id
upsertSlotAnyId(docs, doc) == StoneAnswer(201, {d \in docs : d.slot # doc.slot} \cup {doc})
\* col.updateOne({ slot }, { $set: doc }, { upsert: true }) under the unique
\* indexes: E11000 (409) when another document holds the id
upsertSlot(docs, doc) ==
    IF \E e \in docs : e.slot # doc.slot /\ e.id = doc.id
    THEN StoneAnswer(409, docs)
    ELSE StoneAnswer(201, {d \in docs : d.slot # doc.slot} \cup {doc})

\* mutant: the range test on the slot is gone
slotAnyInteger(v) == isInteger(v)
\* Number.isInteger(slot) && slot >= 1 && slot <= 6
slotOk(v) == isInteger(v) /\ intOf(v) >= 1 /\ intOf(v) <= 6
\* src && typeof src === 'string' && src.trim()
srcOk(v) == v.type = "string" /\ v.s # "" /\ trim(v.s) # ""

\* app.post('/api/power-stones', basicAuth, ..)
postPowerStones(h, b) ==
    IF ~basicAuth(h) THEN StoneAnswer(401, stones.docs)
    ELSE IF ~slotOk(b.slot) THEN StoneAnswer(400, stones.docs)
    ELSE IF ~srcOk(b.src) THEN StoneAnswer(400, stones.docs)
    ELSE IF ~ensurePowerStones THEN StoneAnswer(503, stones.docs)
    ELSE LET slot == intOf(b.slot)
             newStoneId == IF b.id # "" THEN b.id ELSE stoneId(slot)
         IN  upsertSlot(stones.docs,
                        [id |-> newStoneId, slot |-> slot, src |-> trim(b.src.s),
                         title |-> b.title])
\* app.delete('/api/power-stones/:id', basicAuth, ..)
deletePowerStone(h, id) ==
    IF ~basicAuth(h) THEN StoneAnswer(401, stones.docs)
    ELSE IF ~ensurePowerStones THEN StoneAnswer(503, stones.docs)
    ELSE IF ~\E d \in stones.docs : d.id = id THEN StoneAnswer(404, stones.docs)
    ELSE StoneAnswer(204, {d \in stones.docs : d.id # id})
\* app.post('/api/power-stones/delete', basicAuth, ..) of serverless
postPowerStonesDelete(h, id) ==
    IF ~basicAuth(h) THEN StoneAnswer(401, stones.docs)
    ELSE IF id = "" THEN StoneAnswer(400, stones.docs)
    ELSE IF ~ensurePowerStones THEN StoneAnswer(503, stones.docs)
    ELSE IF ~\E d \in stones.docs : d.id = id THEN StoneAnswer(404, stones.docs)
    ELSE StoneAnswer(200, {d \in stones.docs : d.id # id})

\* find({}).sort({ slot: 1 }).toArray()
RECURSIVE sortedBySlot(_)
sortedBySlot(docs) ==
    IF docs = {} THEN <<>>
    ELSE LET first == CHOOSE d \in docs : \A e \in docs : d.slot <= e.slot
         IN  <<first>> \o sortedBySlot(docs \ {first})
\* mutant: the defaults fill the slots that hold no stone
getPowerStonesFilled ==
    sortedBySlot(stones.docs
                 \cup {d \in StoneDefaults : \A e \in stones.docs : e.slot # d.slot})
\* app.get('/api/power-stones'): the stones it answers
getPowerStones ==
    IF ensurePowerStones /\ stones.docs # {} THEN sortedBySlot(stones.docs)
    ELSE sortedBySlot(StoneDefaults)

NoStoneBody == StoneBody("", JUndefined, JUndefined, "")
StonesStart(docs) ==
    [docs |-> docs, op |-> "none", status |-> 0, auth |-> NoHeader,
     req |-> NoStoneBody, id |-> "", out |-> <<>>]
StonesStep(op, h, b, id, out) ==
    /\ stones' = [docs |-> out.docs, op |-> op, status |-> out.status, auth |-> h,
                  req |-> b, id |-> id, out |-> <<>>]
    /\ UNCHANGED <<configVars, storeVars, res, body, authHeader, proxyVars,
                   mongo, race, bulletins, board, highlights>>

PostPowerStones(h, b) ==
    StonesStep("POST /api/power-stones", h, b, "", postPowerStones(h, b))
DeletePowerStone(h, id) ==
    StonesStep("DELETE /api/power-stones/:id", h, NoStoneBody, id, deletePowerStone(h, id))
PostPowerStonesDelete(h, id) ==
    /\ variant = "serverless"
    /\ StonesStep("POST /api/power-stones/delete", h, NoStoneBody, id,
                  postPowerStonesDelete(h, id))

StonesInit ==
    /\ variant \in {"server", "serverless"}
    /\ mongoUri \in BOOLEAN
    /\ adminUser = <<97>>
    /\ adminPass = <<98>>
    /\ fileShape = "missing"
    /\ fileProjects = <<>>
    /\ mongoProjects = {}
    /\ res = NoResponse
    /\ body = <<>>
    /\ authHeader = NoHeader
    /\ allowEnv = <<>>
    /\ ProxyIdle
    /\ mongo = NoMongo
    /\ race = NoRace
    /\ \E docs \in IF ~mongoUri THEN {{}}
                   ELSE IF variant = "server" THEN {StoneDefaults}
                   ELSE {{}, StoneDefaults} : stones = StonesStart(docs)
    /\ bulletins = NoBulletins
    /\ board = NoBoard
    /\ highlights = NoHighlights

StonesNext ==
    \/ \E h \in StoneHeaders, b \in StoneBodies : PostPowerStones(h, b)
    \/ \E h \in StoneHeaders, id \in StoneIds : DeletePowerStone(h, id)
    \/ \E h \in StoneHeaders, id \in StoneIds \cup {""} : PostPowerStonesDelete(h, id)

StonesSpec == StonesInit /\ [][StonesNext]_vars

\* the slot values that are an integer between 1 and 6
SlotInRange(v) == v.type = "number" /\ v.n \in {10, 20, 30, 40, 50, 60}
\* the last request was an authenticated POST /api/power-stones
StonePosted(st) == st.op = "POST /api/power-stones" /\ basicAuth(st.auth)

\* C15: an (authenticated) POST /api/power-stones whose slot is not an
\* integer between 1 and 6 is answered 400 and leaves the power-stone store
\* as it was, with and without a configured database.
C15_BadSlotRejected ==
    [][(StonePosted(stones') /\ ~SlotInRange(stones'.req.slot))
          => (stones'.status = 400 /\ stones'.docs = stones.docs)]_vars
C15_Witness ==
    /\ StonePosted(stones)
    /\ stones.req.slot = JNum(70)
    /\ stones.status = 400
    /\ mongoUri /\ stones.docs # {}

\* C16: whatever POST and DELETE requests were served, the store holds at
\* most one record per slot, every slot is in 1..6, so at most six records;
\* a POST for an occupied slot adds no record, and when it is accepted the
\* slot's record carries the posted src and title.
C16_OnePerSlot ==
    /\ [](/\ \A d, e \in stones.docs : d.slot = e.slot => d = e
          /\ \A d \in stones.docs : d.slot \in 1..6
          /\ Cardinality(stones.docs) <= 6)
    /\ [][(/\ StonePosted(stones')
           /\ SlotInRange(stones'.req.slot)
           /\ \E d \in stones.docs : d.slot * 10 = stones'.req.slot.n)
          => /\ Cardinality(stones'.docs) = Cardinality(stones.docs)
             /\ stones'.status = 201 =>
                   \E d \in stones'.docs : /\ d.slot * 10 = stones'.req.slot.n
                                           /\ d.src = trim(stones'.req.src.s)
                                           /\ d.title = stones'.req.title]_vars
C16_Witness ==
    /\ StonePosted(stones) /\ stones.status = 201
    /\ stones.req.slot = JNum(10) /\ stones.req.src = JStr(" b ")
    /\ Cardinality(stones.docs) = 6
    /\ \E d \in stones.docs : d.slot = 1 /\ d.src = "b" /\ d.id = "ps-1"

(***************************************************************************)
(* BulletinsSpec: the bulletin routes on the collection and, in server, on *)
(* data/bulletins.json.  Dates are YYYY-MM-DD strings; createdAt is the    *)
(* reading of a clock that may stand still between two requests.           *)
(***************************************************************************)
\* the most bulletins a store is let grow to, and the last reading of the clock
MaxBulletins == 3
MaxClock == 1

Langs == {"ta", "en", "kn", "ml", "te"}
Dates == {"2025-07-01", "2025-08-01"}
\* new Date().toISOString().slice(0, 10)
Today == "2025-08-01"
\* localeCompare on the dates
DateRank == [d \in Dates |-> IF d = "2025-07-01" THEN 1 ELSE 2]

Bulletin(id, lang, date, createdAt) ==
    [id |-> id, lang |-> lang, title |-> "t", pdf |-> "p", date |-> date,
     createdAt |-> createdAt]
\* a request body; "" is a missing field
BulletinBody(id, lang, pdf, date) == [id |-> id, lang |-> lang, pdf |-> pdf, date |-> date]
BulletinBodies ==
    {BulletinBody("", "en", "p", "2025-07-01"), BulletinBody("b1", "en", "p", "2025-08-01"),
     BulletinBody("b1", "EN", "p", "2025-07-01"), BulletinBody("b2", "ta", "p", ""),
     BulletinBody("b2", "en", "p", "2025-07-01"),
     BulletinBody("b1", "xx", "p", ""), BulletinBody("b1", "en", "", "")}
BulletinIds == {"b1", "nope"}
\* ?lang=..; "" is a request without the parameter
QueryLangs == {"en", "EN", "xx", ""}

\* a sorts at or before b under sort({ date: -1, createdAt: -1 })
notAfter(a, b) ==
    \/ DateRank[a.date] > DateRank[b.date]
    \/ a.date = b.date /\ a.createdAt >= b.createdAt
\* the arrays find(..).sort({ date: -1, createdAt: -1 }).toArray() may return
sortedNewestFirst(docs) ==
    LET n == Cardinality(docs)
    IN  {s \in [1..n -> docs] :
            /\ \A i, j \in 1..n : i # j => s[i] # s[j]
            /\ \A i, j \in 1..n : i < j => notAfter(s[i], s[j])}
\* Array.prototype.sort with the file branch's comparator (stable)
sortNewestFirst(arr) ==
    LET n == Len(arr)
        p == CHOOSE q \in [1..n -> 1..n] :
                /\ \A i, j \in 1..n : i # j => q[i] # q[j]
                /\ \A i, j \in 1..n : i < j =>
                      /\ notAfter(arr[q[i]], arr[q[j]])
                      /\ (arr[q[i]].date = arr[q[j]].date
                          /\ arr[q[i]].createdAt = arr[q[j]].createdAt) => q[i] < q[j]
    IN  [i \in 1..n |-> arr[p[i]]]
\* arr.filter(b => (b.lang || 'ta').toLowerCase() === lang)
filterLang(arr, lang) ==
    SelectSeq(arr, LAMBDA b : toLowerCase(IF b.lang = "" THEN "ta" ELSE b.lang) = lang)

\* ({ id, title, date, pdf, lang }) => ({ id, title, date, pdf, lang })
archived(b) == [id |-> b.id, title |-> b.title, date |-> b.date, pdf |-> b.pdf, lang |-> b.lang]
\* { latest: items[0], archives: items.slice(1).map(..) }
latestAndArchives(items) ==
    [latest |-> items[1],
     archives |-> [i \in 1..(Len(items) - 1) |-> archived(items[i + 1])]]
\* defaults[lang] || defaults.ta
defaultBulletin(lang) ==
    LET l == IF lang \in Langs THEN lang ELSE "ta"
    IN  [latest |-> [id |-> l \o "-1", lang |-> l, title |-> "default", pdf |-> "dummy",
                     date |-> "2025-08-01", createdAt |-> -1],
         archives |-> <<>>]

\* ensureBulletins: the collection, or null without a connection string
ensureBulletins == mongoUri

\* mutant: the language filter of the query is gone
queryAllLangs(docs, lang) == docs
\* col.find({ lang })
queryLang(docs, lang) == {d \in docs : d.lang = lang}

\* app.get('/api/bulletins'): the responses it may give
getBulletins(queried) ==
    LET lang == toLowerCase(IF queried = "" THEN "ta" ELSE queried)
        found == IF ensureBulletins THEN queryLang(bulletins.docs, lang) ELSE {}
        local == IF variant = "server"
                 THEN sortNewestFirst(filterLang(bulletins.file, lang)) ELSE <<>>
    IN  IF found # {} THEN {latestAndArchives(items) : items \in sortedNewestFirst(found)}
        ELSE IF local # <<>> THEN {latestAndArchives(local)}
        ELSE {defaultBulletin(lang)}

BulletinAnswer(status, docs, file) == [status |-> status, docs |-> docs, file |-> file]
\* app.post('/api/bulletins', basicAuth, ..) at clock reading now
postBulletins(h, b, now) ==
    IF ~basicAuth(h) THEN BulletinAnswer(401, bulletins.docs, bulletins.file)
    ELSE IF toLowerCase(b.lang) \notin Langs
    THEN BulletinAnswer(400, bulletins.docs, bulletins.file)
    ELSE IF b.pdf = "" THEN BulletinAnswer(400, bulletins.docs, bulletins.file)
    ELSE IF ~ensureBulletins /\ variant = "serverless"
    THEN BulletinAnswer(503, bulletins.docs, bulletins.file)
    ELSE LET nid == IF b.id # "" THEN b.id ELSE b.lang \o "-" \o ToString(now)
             doc == [Bulletin(nid, toLowerCase(b.lang),
                              IF b.date # "" THEN b.date ELSE Today, now)
                        EXCEPT !.pdf = trim(b.pdf)]
             arr == bulletins.file
             idx == {i \in 1..Len(arr) : arr[i].id = nid}
         IN  IF ~ensureBulletins
             THEN BulletinAnswer(201, bulletins.docs,
                                 IF idx # {}
                                 THEN [arr EXCEPT ![CHOOSE i \in idx : \A j \in idx : i <= j] = doc]
                                 ELSE Append(arr, doc))
             ELSE BulletinAnswer(201, {d \in bulletins.docs : d.id # nid} \cup {doc},
                                 bulletins.file)
\* app.delete('/api/bulletins/:id', basicAuth, ..)
deleteBulletin(h, id) ==
    IF ~basicAuth(h) THEN BulletinAnswer(401, bulletins.docs, bulletins.file)
    ELSE IF ~ensureBulletins /\ variant = "serverless"
    THEN BulletinAnswer(503, bulletins.docs, bulletins.file)
    ELSE IF ~ensureBulletins
    THEN LET arr == SelectSeq(bulletins.file, LAMBDA b : b.id # id)
         IN  BulletinAnswer(IF Len(arr) = Len(bulletins.file) THEN 404 ELSE 204,
                            bulletins.docs, arr)
    ELSE IF ~\E d \in bulletins.docs : d.id = id
    THEN BulletinAnswer(404, bulletins.docs, bulletins.file)
    ELSE BulletinAnswer(204, {d \in bulletins.docs : d.id # id}, bulletins.file)

\* the first record the start-up seeding of server.js inserts (Tamil, current month)
seededBulletin ==
    [id |-> "ta-2025-08", lang |-> "ta", title |-> "seed", pdf |-> "dummy",
     date |-> "2025-08-01", createdAt |-> 0]

BulletinsStart(docs, file) ==
    [docs |-> docs, file |-> file, now |-> 0, op |-> "none", status |-> 0,
     lang |-> "", out |-> NoBulletins]
BulletinsStep(b) ==
    /\ bulletins' = b
    /\ UNCHANGED <<configVars, storeVars, res, body, authHeader, proxyVars,
                   mongo, race, stones, board, highlights>>

GetBulletins(queried) ==
    \E out \in getBulletins(queried) :
        BulletinsStep([bulletins EXCEPT !.op = "GET /api/bulletins", !.status = 200,
                                        !.lang = queried, !.out = out])
\* the clock reads now + tick when the request is served
PostBulletins(h, b, tick) ==
    /\ bulletins.now + tick <= MaxClock
    /\ LET out == postBulletins(h, b, bulletins.now + tick)
       IN  /\ Cardinality(out.docs) <= MaxBulletins
           /\ Len(out.file) <= MaxBulletins
           /\ BulletinsStep([bulletins EXCEPT !.docs = out.docs, !.file = out.file,
                                              !.now = @ + tick,
                                              !.op = "POST /api/bulletins",
                                              !.status = out.status,
                                              !.out = NoBulletins])
DeleteBulletin(h, id) ==
    LET out == deleteBulletin(h, id)
    IN  BulletinsStep([bulletins EXCEPT !.docs = out.docs, !.file = out.file,
                                        !.op = "DELETE /api/bulletins/:id",
                                        !.status = out.status, !.out = NoBulletins])

BulletinsInit ==
    /\ variant \in {"server", "serverless"}
    /\ mongoUri \in BOOLEAN
    /\ adminUser = <<97>>
    /\ adminPass = <<98>>
    /\ fileShape = "missing"
    /\ fileProjects = <<>>
    /\ mongoProjects = {}
    /\ res = NoResponse
    /\ body = <<>>
    /\ authHeader = NoHeader
    /\ allowEnv = <<>>
    /\ ProxyIdle
    /\ mongo = NoMongo
    /\ race = NoRace
    /\ stones = NoStones
    \* server.js seeds the collection one record at a time after it started
    \* listening: requests are served on the collection before the seeding, or
    \* after its first insertion; the serverless handler keeps no file
    /\ \E file \in IF variant = "server"
                   THEN {<<>>, <<Bulletin("f1", "en", "2025-07-01", 0)>>}
                   ELSE {<<>>},
          docs \in IF variant = "server" /\ mongoUri THEN {{}, {seededBulletin}} ELSE {{}} :
          bulletins = BulletinsStart(docs, file)
    /\ board = NoBoard
    /\ highlights = NoHighlights

BulletinsNext ==
    \/ \E queried \in QueryLangs : GetBulletins(queried)
    \/ \E h \in StoneHeaders, b \in BulletinBodies, tick \in {0, 1} : PostBulletins(h, b, tick)
    \/ \E h \in StoneHeaders, id \in BulletinIds : DeleteBulletin(h, id)

BulletinsSpec == BulletinsInit /\ [][BulletinsNext]_vars

(***************************************************************************)
(* BoardSpec: the leaderboard routes of the serverless handler.  Scores    *)
(* are in tenths, as the numbers of a request body are.                    *)
(***************************************************************************)
\* the most entries the collection is let grow to
MaxEntries == 3
\* sc > 1000000
MaxScore == 1000000

JNull == [type |-> "null", n |-> 0, s |-> ""]
\* a number or NaN
Finite(tenths) == [finite |-> TRUE, n |-> tenths]
NaN == [finite |-> FALSE, n |-> 0]
\* Number(v) on the values the model sends
Number(v) ==
    CASE v.type = "number" -> Finite(v.n)
      [] v.type = "null" -> Finite(0)
      [] v.type = "undefined" -> NaN
      [] v.type = "string" /\ v.s = "" -> Finite(0)
      [] OTHER -> NaN

\* new Set(['snake','whack','flight','memory'])
G == {"snake", "whack", "flight", "memory"}
\* mutant: the nickname is stored at its full length
wholeName(s) == s
\* .slice(0, 24)
slice24(s) == IF s = "abcdefghijklmnopqrstuvwxy" THEN "abcdefghijklmnopqrstuvwx" ELSE s
\* name.length < 2
tooShort(s) == s \in {"", "a"}

ScoreBody(game, nickname, score) == [game |-> game, nickname |-> nickname, score |-> score]
\* the bodies POST /api/leaderboard is sent
ScoreBodies ==
    {ScoreBody("snake", "ab", v) :
        v \in {JNum(0), JNum(10 * MaxScore), JNum(10 * MaxScore + 10),
               JNum(10 * MaxScore + 1), JNum(-10), JStr("abc"),
               JNull, JUndefined}}
    \cup {ScoreBody(" Whack ", "abcdefghijklmnopqrstuvwxy", JNum(0)),
          ScoreBody("chess", "ab", JNum(0)), ScoreBody("", "ab", JNum(0)),
          ScoreBody("whack", " a ", JNum(0)), ScoreBody("whack", "", JNum(0))}
\* req.query.limit and req.query.game; "" is a missing parameter
BoardQueries ==
    {[limit |-> "", game |-> ""], [limit |-> "1", game |-> " Snake "],
     [limit |-> "0", game |-> "whack"], [limit |-> "abc", game |-> ""],
     [limit |-> "-5", game |-> ""], [limit |-> "2", game |-> "chess"]}
\* parseInt(req.query.limit || '10', 10) || 10, clamped to 1..100
limitOf(str) ==
    \* parseInt; 0 stands for NaN as well, both are falsy
    LET parsed == CASE str = "" -> 10 [] str = "1" -> 1 [] str = "0" -> 0
                    [] str = "abc" -> 0 [] str = "-5" -> -5 [] str = "2" -> 2
        n == IF parsed = 0 THEN 10 ELSE parsed
        atLeast == IF n > 1 THEN n ELSE 1
    IN  IF atLeast < 100 THEN atLeast ELSE 100

\* ensureLeaderboard: the collection, or null without a connection string
ensureLeaderboard == mongoUri

\* a sorts at or before b under sort({ score: -1, createdAt: -1 })
ranksBefore(a, b) == a.score > b.score \/ (a.score = b.score /\ a.createdAt >= b.createdAt)
\* .project({ _id: 0 })
shown(e) ==
    [id |-> e.id, game |-> e.game, nickname |-> e.nickname, score |-> e.score,
     createdAt |-> e.createdAt]
\* mutant: the limit is not applied
rankedAll(docs, limit) ==
    LET n == Cardinality(docs)
    IN  {[i \in 1..n |-> shown(t[i])] :
            t \in {u \in [1..n -> docs] :
                      /\ \A i, j \in 1..n : i # j => u[i] # u[j]
                      /\ \A i, j \in 1..n : i < j => ranksBefore(u[i], u[j])}}
\* col.find(query).sort({ score: -1, createdAt: -1 }).limit(limit).project(..).toArray()
ranked(docs, limit) ==
    LET n == Cardinality(docs)
        m == IF n < limit THEN n ELSE limit
    IN  {[i \in 1..m |-> shown(t[i])] :
            t \in {u \in [1..n -> docs] :
                      /\ \A i, j \in 1..n : i # j => u[i] # u[j]
                      /\ \A i, j \in 1..n : i < j => ranksBefore(u[i], u[j])}}
\* app.get('/api/leaderboard'): the entries it may answer
getLeaderboard(q) ==
    LET limit == limitOf(q.limit)
        game == toLowerCase(trim(q.game))
    IN  IF ensureLeaderboard
        THEN ranked(IF game # "" THEN {e \in board.docs : e.game = game} ELSE board.docs,
                    limit)
        ELSE {<<>>}

BoardAnswer(status, docs) == [status |-> status, docs |-> docs]
\* mutant: the nickname's earlier entries are replaced
replaceEntry(docs, doc) == {e \in docs : e.nickname # doc.nickname} \cup {doc}
\* col.insertOne(doc)
insertOne(docs, doc) == docs \cup {doc}
\* !(!Number.isFinite(sc) || sc < 0 || sc > 1000000)
scoreOk(sc) == sc.finite /\ sc.n >= 0 /\ sc.n <= 10 * MaxScore
\* app.post('/api/leaderboard') at clock reading now, Math.random() giving rnd,
\* the driver giving the document the _id oid
postLeaderboard(b, now, rnd, oid) ==
    LET g == toLowerCase(trim(b.game))
        name == slice24(trim(b.nickname))
        sc == Number(b.score)
    IN  IF g \notin G THEN BoardAnswer(400, board.docs)
        ELSE IF tooShort(name) THEN BoardAnswer(400, board.docs)
        ELSE IF ~scoreOk(sc) THEN BoardAnswer(400, board.docs)
        ELSE IF ~ensureLeaderboard THEN BoardAnswer(503, board.docs)
        ELSE BoardAnswer(201,
                 insertOne(board.docs,
                           [_id |-> oid, id |-> "lb-" \o ToString(now) \o "-" \o rnd,
                            game |-> g, nickname |-> name, score |-> sc.n,
                            createdAt |-> now]))

NoScoreBody == ScoreBody("", "", JUndefined)
NoBoardQuery == [limit |-> "", game |-> ""]
BoardStart ==
    [docs |-> {}, now |-> 0, inserted |-> 0, op |-> "none", status |-> 0,
     req |-> NoScoreBody, query |-> NoBoardQuery, out |-> <<>>]
BoardStep(b) ==
    /\ board' = b
    /\ UNCHANGED <<configVars, storeVars, res, body, authHeader, proxyVars,
                   mongo, race, stones, bulletins, highlights>>

GetLeaderboard(q) ==
    \E out \in getLeaderboard(q) :
        BoardStep([board EXCEPT !.op = "GET /api/leaderboard", !.status = 200,
                                !.req = NoScoreBody, !.query = q, !.out = out])
\* the clock reads now + tick when the request is served
PostLeaderboard(b, tick, rnd) ==
    /\ board.now + tick <= MaxClock
    /\ LET out == postLeaderboard(b, board.now + tick, rnd, board.inserted + 1)
       IN  /\ Cardinality(out.docs) <= MaxEntries
           /\ BoardStep([board EXCEPT !.docs = out.docs, !.now = @ + tick,
                                      !.inserted = IF out.status = 201 THEN @ + 1 ELSE @,
                                      !.op = "POST /api/leaderboard",
                                      !.status = out.status, !.req = b,
                                      !.query = NoBoardQuery, !.out = <<>>])

BoardInit ==
    /\ variant = "serverless"
    /\ mongoUri \in BOOLEAN
    /\ adminUser = <<97>>
    /\ adminPass = <<98>>
    /\ fileShape = "missing"
    /\ fileProjects = <<>>
    /\ mongoProjects = {}
    /\ res = NoResponse
    /\ body = <<>>
    /\ authHeader = NoHeader
    /\ allowEnv = <<>>
    /\ ProxyIdle
    /\ mongo = NoMongo
    /\ race = NoRace
    /\ stones = NoStones
    /\ bulletins = NoBulletins
    /\ board = BoardStart
    /\ highlights = NoHighlights

BoardNext ==
    \/ \E q \in BoardQueries : GetLeaderboard(q)
    \/ \E b \in ScoreBodies, tick \in {0, 1}, rnd \in {"k3x9qa"} :
           PostLeaderboard(b, tick, rnd)

BoardSpec == BoardInit /\ [][BoardNext]_vars

(***************************************************************************)
(* The highlight write routes, and FallbackSpec: a deployment without a    *)
(* connection string serving project, power-stone, highlight and           *)
(* leaderboard requests.                                                   *)
(***************************************************************************)
HighlightBody(id, src, title, order) == [id |-> id, src |-> src, title |-> title, order |-> order]
NoHighlightBody == HighlightBody("", JUndefined, "", JUndefined)
HighlightAnswer(status, docs) == [status |-> status, docs |-> docs]

\* mutant: a collection is at hand without a connection string
connectedAnyway == TRUE
\* ensureHighlights: the collection, or null without a connection string
ensureHighlights == mongoUri

\* app.post('/api/highlights', basicAuth, ..); g is `hl-${Date.now()}`
postHighlights(h, b, g) ==
    IF ~basicAuth(h) THEN HighlightAnswer(401, highlights.docs)
    ELSE IF ~srcOk(b.src) THEN HighlightAnswer(400, highlights.docs)
    ELSE IF ~ensureHighlights THEN HighlightAnswer(503, highlights.docs)
    ELSE LET nextOrder == IF b.order.type = "number" THEN b.order.n
                          ELSE 10 * Cardinality(highlights.docs)
             hlId == IF b.id # "" THEN b.id ELSE g
         IN  HighlightAnswer(201,
                 {d \in highlights.docs : d.id # hlId}
                 \cup {[id |-> hlId, src |-> trim(b.src.s), title |-> b.title,
                        order |-> nextOrder]})
\* app.put('/api/highlights/:id', basicAuth, ..)
putHighlight(h, id, b) ==
    IF ~basicAuth(h) THEN HighlightAnswer(401, highlights.docs)
    ELSE IF ~ensureHighlights THEN HighlightAnswer(503, highlights.docs)
    ELSE IF ~\E d \in highlights.docs : d.id = id THEN HighlightAnswer(404, highlights.docs)
    ELSE HighlightAnswer(200,
             {IF d.id # id THEN d
              ELSE [d EXCEPT !.src = IF b.src.type = "string" THEN trim(b.src.s) ELSE @,
                             !.title = b.title,
                             !.order = IF b.order.type = "number" THEN b.order.n ELSE @] :
                 d \in highlights.docs})
\* app.delete('/api/highlights/:id', basicAuth, ..)
deleteHighlight(h, id) ==
    IF ~basicAuth(h) THEN HighlightAnswer(401, highlights.docs)
    ELSE IF ~ensureHighlights THEN HighlightAnswer(503, highlights.docs)
    ELSE IF ~\E d \in highlights.docs : d.id = id THEN HighlightAnswer(404, highlights.docs)
    ELSE HighlightAnswer(204, {d \in highlights.docs : d.id # id})

HighlightsStart ==
    [docs |-> {}, op |-> "none", status |-> 0, auth |-> NoHeader, req |-> NoHighlightBody]
HighlightsStep(op, h, b, out) ==
    /\ highlights' = [docs |-> out.docs, op |-> op, status |-> out.status, auth |-> h,
                      req |-> b]
    /\ UNCHANGED <<configVars, storeVars, res, body, authHeader, proxyVars,
                   mongo, race, stones, bulletins, board>>
PostHighlights(h, b, g) == HighlightsStep("POST /api/highlights", h, b, postHighlights(h, b, g))
PutHighlight(h, id, b) == HighlightsStep("PUT /api/highlights/:id", h, b, putHighlight(h, id, b))
DeleteHighlight(h, id) ==
    HighlightsStep("DELETE /api/highlights/:id", h, NoHighlightBody, deleteHighlight(h, id))

\* the admin's header, and the valid writes FallbackSpec sends
AdminHeader == BasicHeader(<<97>>, <<98>>)
FallbackStoneBodies ==
    {StoneBody("", JNum(10), JStr("a"), "T"), StoneBody("ps-2", JNum(20), JStr(" b "), "")}
FallbackScoreBodies ==
    {ScoreBody("snake", "ab", JNum(0)), ScoreBody("snake", "ab", JNum(10 * MaxScore))}
FallbackHighlightBodies ==
    {HighlightBody("", JStr("a"), "T", JUndefined), HighlightBody("h1", JStr(" b "), "", JNum(10))}
FallbackCreateBodies ==
    {Body("p1", "A", "d", "i", "flagship"), Body("", "B", "d", "i", "existing")}

FallbackInit ==
    /\ variant \in {"server", "serverless"}
    /\ mongoUri = FALSE
    /\ adminUser = <<97>>
    /\ adminPass = <<98>>
    /\ \E f \in InitFiles : fileShape = f[1] /\ fileProjects = f[2]
    /\ mongoProjects = {}
    /\ res = NoResponse
    /\ body = <<>>
    /\ authHeader = NoHeader
    /\ allowEnv = <<>>
    /\ ProxyIdle
    /\ mongo = NoMongo
    /\ race = NoRace
    /\ stones = StonesStart({})
    /\ bulletins = NoBulletins
    /\ board = BoardStart
    /\ highlights = HighlightsStart

FallbackNext ==
    \/ \E t \in {"", "existing"} : GetProjects(t)
    \/ \E b \in FallbackCreateBodies : PostProjects(AdminHeader, b, "g1")
    \/ \E id \in {"p1", "p2"} : PutProject(AdminHeader, id, Body("", "B", "d", "i", ""))
    \/ \E id \in {"p1", "p2"} : DeleteProject(AdminHeader, id)
    \/ \E b \in FallbackStoneBodies : PostPowerStones(AdminHeader, b)
    \/ DeletePowerStone(AdminHeader, "ps-1")
    \/ \E b \in FallbackHighlightBodies : PostHighlights(AdminHeader, b, "hl-1")
    \/ \E b \in FallbackHighlightBodies : PutHighlight(AdminHeader, "h1", b)
    \/ DeleteHighlight(AdminHeader, "h1")
    \/ variant = "serverless" /\ \E b \in FallbackScoreBodies : PostLeaderboard(b, 0, "k3x9qa")

FallbackSpec == FallbackInit /\ [][FallbackNext]_vars

(***************************************************************************)
(* DefaultsSpec: the public reads of power stones and bulletins next to    *)
(* the admin's writes, for the built-in defaults.                          *)
(***************************************************************************)
GetPowerStones ==
    /\ stones' = [stones EXCEPT !.op = "GET /api/power-stones", !.status = 200,
                                !.auth = NoHeader, !.req = NoStoneBody, !.id = "",
                                !.out = getPowerStones]
    /\ UNCHANGED <<configVars, storeVars, res, body, authHeader, proxyVars,
                   mongo, race, bulletins, board, highlights>>

DefaultsBulletinBodies ==
    {BulletinBody("b1", "en", "p", "2025-07-01"), BulletinBody("", "ta", "p", "")}

DefaultsInit ==
    /\ variant \in {"server", "serverless"}
    /\ mongoUri \in BOOLEAN
    /\ adminUser = <<97>>
    /\ adminPass = <<98>>
    /\ fileShape = "missing"
    /\ fileProjects = <<>>
    /\ mongoProjects = {}
    /\ res = NoResponse
    /\ body = <<>>
    /\ authHeader = NoHeader
    /\ allowEnv = <<>>
    /\ ProxyIdle
    /\ mongo = NoMongo
    /\ race = NoRace
    /\ \E docs \in IF ~mongoUri THEN {{}}
                   ELSE IF variant = "server" THEN {StoneDefaults}
                   ELSE {{}, StoneDefaults} : stones = StonesStart(docs)
    /\ \E file \in IF variant = "server"
                   THEN {<<>>, <<Bulletin("f1", "en", "2025-07-01", 0)>>}
                   ELSE {<<>>},
          docs \in IF variant = "server" /\ mongoUri THEN {{}, {seededBulletin}} ELSE {{}} :
          bulletins = BulletinsStart(docs, file)
    /\ board = NoBoard
    /\ highlights = NoHighlights

DefaultsNext ==
    \/ GetPowerStones
    \/ \E b \in FallbackStoneBodies : PostPowerStones(AdminHeader, b)
    \/ \E id \in {"ps-1", "ps-2"} : DeletePowerStone(AdminHeader, id)
    \/ \E queried \in {"en", "xx", ""} : GetBulletins(queried)
    \/ \E b \in DefaultsBulletinBodies : PostBulletins(AdminHeader, b, 0)
    \/ \E id \in {"b1", "f1"} : DeleteBulletin(AdminHeader, id)

DefaultsSpec == DefaultsInit /\ [][DefaultsNext]_vars

(***************************************************************************)
(* Claims about the bulletins                                              *)
(***************************************************************************)
\* the bulletins of the store the routes write to
StoredBulletins ==
    IF mongoUri THEN bulletins.docs
    ELSE {bulletins.file[i] : i \in 1..Len(bulletins.file)}
OfLang(recs, l) == {d \in recs : d.lang = l}
\* a is at least as recent as b: greater date, or same date and createdAt not less
AsRecent(a, b) ==
    \/ DateRank[a.date] > DateRank[b.date]
    \/ DateRank[a.date] = DateRank[b.date] /\ a.createdAt >= b.createdAt
\* the response shows latest and archives of recs: the most recent record as
\* latest, every other record once in archives, most recent first
LatestAndArchivesOf(out, recs) ==
    LET n == Len(out.archives)
        rest == recs \ {out.latest}
        of(a) == CHOOSE d \in rest : d.id = a.id
    IN  /\ out.latest \in recs
        /\ \A d \in recs : AsRecent(out.latest, d)
        /\ n = Cardinality(rest)
        /\ \A i \in 1..n :
              \E d \in rest :
                  out.archives[i] = [id |-> d.id, title |-> d.title, date |-> d.date,
                                     pdf |-> d.pdf, lang |-> d.lang]
        /\ \A i, j \in 1..n : i # j => out.archives[i].id # out.archives[j].id
        /\ \A i, j \in 1..n : i < j => AsRecent(of(out.archives[i]), of(out.archives[j]))
GotBulletins == bulletins # NoBulletins /\ bulletins.op = "GET /api/bulletins"

\* C17: GET /api/bulletins?lang=L with a bulletin of language L stored answers
\* the most recent record of L (date, then createdAt) as latest, all other
\* records of L as archives in descending (date, createdAt) order, and no
\* record of another language.
C17_LatestAndArchives ==
    (/\ GotBulletins
     /\ bulletins.lang # ""
     /\ OfLang(StoredBulletins, toLowerCase(bulletins.lang)) # {})
    => /\ LatestAndArchivesOf(bulletins.out,
                              OfLang(StoredBulletins, toLowerCase(bulletins.lang)))
       /\ bulletins.out.latest.lang = toLowerCase(bulletins.lang)
       /\ \A i \in 1..Len(bulletins.out.archives) :
             bulletins.out.archives[i].lang = toLowerCase(bulletins.lang)
\* a GET for a language with two stored bulletins while another language is stored too
C17_Witness ==
    /\ GotBulletins
    /\ bulletins.lang = "en"
    /\ Cardinality(OfLang(StoredBulletins, "en")) >= 2
    /\ OfLang(StoredBulletins, "ta") # {}
    /\ Len(bulletins.out.archives) >= 1

\* C18: GET /api/bulletins?lang=x with x not a recognised language applies no
\* filter: latest and archives are those of all stored bulletins.
C18_UnknownLangUnfiltered ==
    (/\ GotBulletins
     /\ bulletins.lang # ""
     /\ toLowerCase(bulletins.lang) \notin Langs
     /\ StoredBulletins # {})
    => LatestAndArchivesOf(bulletins.out, StoredBulletins)

(***************************************************************************)
(* Claims about the leaderboard                                            *)
(***************************************************************************)
\* the last request was a POST /api/leaderboard with a valid game and nickname
\* on a connected store
ScorePosted(b) ==
    /\ b.op = "POST /api/leaderboard"
    /\ mongoUri
    /\ b.req.game \in G
    /\ b.req.nickname = "ab"
\* the score is a finite number in 0..1000000
ScoreInRange(v) == v.type = "number" /\ v.n >= 0 /\ v.n <= 10 * 1000000

\* C19: with a connected store and a valid game and nickname, a POST
\* /api/leaderboard whose score is not a finite number in 0..1000000 is
\* answered 400 and stores nothing, and one whose score is in the range is
\* answered 201 and adds exactly one entry.
C19_ScoreRange ==
    [][ScorePosted(board') =>
          IF ScoreInRange(board'.req.score)
          THEN /\ board'.status = 201
               /\ board.docs \subseteq board'.docs
               /\ Cardinality(board'.docs) = Cardinality(board.docs) + 1
          ELSE board'.status = 400 /\ board'.docs = board.docs]_vars
\* the same for the scores that are numbers
C19_NumberScoreRange ==
    [][(ScorePosted(board') /\ board'.req.score.type = "number") =>
          IF ScoreInRange(board'.req.score)
          THEN /\ board'.status = 201
               /\ board.docs \subseteq board'.docs
               /\ Cardinality(board'.docs) = Cardinality(board.docs) + 1
          ELSE board'.status = 400 /\ board'.docs = board.docs]_vars

\* C20: the leaderboard is append-only: no request removes or changes an
\* entry, and every accepted POST /api/leaderboard adds exactly one entry.
C20_AppendOnly ==
    [][/\ board.docs \subseteq board'.docs
       /\ (board'.op = "POST /api/leaderboard" /\ board'.status = 201)
             => Cardinality(board'.docs) = Cardinality(board.docs) + 1
       /\ ~(board'.op = "POST /api/leaderboard" /\ board'.status = 201)
             => board'.docs = board.docs]_vars
\* two accepted scores of one nickname are both on the board, and were read
C20_Witness ==
    /\ board # NoBoard
    /\ board.op = "GET /api/leaderboard"
    /\ \E d, e \in board.docs : d # e /\ d.nickname = e.nickname
    /\ Len(board.out) >= 2

\* C21: after any sequence of submissions every stored leaderboard entry has
\* a game in {snake, whack, flight, memory}, a nickname of 2 to 24
\* characters, and a score between 0 and 1000000 inclusive.
C21_EntriesValid ==
    board # NoBoard =>
        \A e \in board.docs :
            /\ e.game \in {"snake", "whack", "flight", "memory"}
            /\ Len(e.nickname) >= 2 /\ Len(e.nickname) <= 24
            /\ e.score >= 0 /\ e.score <= 10 * 1000000
\* entries at the limits: a nickname cut to 24 characters, a score of 1000000
C21_Witness ==
    /\ board # NoBoard
    /\ \E e \in board.docs : Len(e.nickname) = 24
    /\ \E e \in board.docs : e.score = 10 * 1000000
    /\ \E e \in board.docs : e.score = 0 /\ Len(e.nickname) = 2

(***************************************************************************)
(* Further claims about the projects store                                 *)
(***************************************************************************)
\* C22: after any sequence of authenticated project create and update
\* requests every stored project has a type in {flagship, existing,
\* upcoming} and a non-empty title, description and image.
C22_StoredProjectsValid ==
    \A p \in StoredProjects :
        /\ p.type \in {"flagship", "existing", "upcoming"}
        /\ p.title # "" /\ p.description # "" /\ p.image # ""

\* C23: GET /api/projects answers the same records in the same order on the
\* file as the collection answers for them: the collection answers title
\* ascending, so every answer is in title-ascending order.
C23_SameOrderOnBothBackends ==
    res.op = "GET /api/projects" =>
        \A i, j \in 1..Len(body) :
            i < j => TitleRank[body[i].title] <= TitleRank[body[j].title]

(***************************************************************************)
(* Further claims about the power stones                                   *)
(***************************************************************************)
\* the id a POST /api/power-stones gives its stone
PostedStoneId(b) == IF b.id # "" THEN b.id ELSE stoneId(b.slot.n \div 10)
\* C24: a write that would give the collection a second record with a used
\* unique key is answered 409 and changes nothing: a POST /api/power-stones
\* for a slot, carrying the id of the stone of another slot, is answered 409
\* and leaves the collection as it was, and the collection never holds two
\* records with one id or one slot.
C24_DuplicateKeyConflict ==
    /\ [](\A d, e \in stones.docs : (d.id = e.id \/ d.slot = e.slot) => d = e)
    /\ [][(/\ StonePosted(stones')
           /\ mongoUri
           /\ SlotInRange(stones'.req.slot)
           /\ srcOk(stones'.req.src)
           /\ \E e \in stones.docs : /\ e.slot * 10 # stones'.req.slot.n
                                     /\ e.id = PostedStoneId(stones'.req))
          => (stones'.status = 409 /\ stones'.docs = stones.docs)]_vars
\* slot 1 was posted with the id of the stone in slot 2
C24_Witness ==
    /\ StonePosted(stones)
    /\ stones.status = 409
    /\ stones.req.slot = JNum(10) /\ stones.req.id = "ps-2"
    /\ \E e \in stones.docs : e.slot = 2 /\ e.id = "ps-2"

(***************************************************************************)
(* Claims about a deployment without a connection string                   *)
(***************************************************************************)
\* the step served an authenticated, valid write to the power stones, the
\* highlights or the leaderboard
ValidStoneWrite ==
    /\ stones' # stones /\ basicAuth(stones'.auth)
    /\ \/ stones'.op = "DELETE /api/power-stones/:id"
       \/ /\ stones'.op = "POST /api/power-stones"
          /\ SlotInRange(stones'.req.slot)
          /\ stones'.req.src.type = "string" /\ stones'.req.src.s \notin {"", " "}
ValidHighlightWrite ==
    /\ highlights' # highlights /\ basicAuth(highlights'.auth)
    /\ \/ highlights'.op \in {"PUT /api/highlights/:id", "DELETE /api/highlights/:id"}
       \/ /\ highlights'.op = "POST /api/highlights"
          /\ highlights'.req.src.type = "string" /\ highlights'.req.src.s \notin {"", " "}
ValidScoreWrite ==
    /\ board' # board
    /\ board'.op = "POST /api/leaderboard"
    /\ board'.req.game \in {"snake", "whack", "flight", "memory"}
    /\ board'.req.nickname = "ab"
    /\ ScoreInRange(board'.req.score)

\* C25: with no connection string, every authenticated and valid write to
\* highlights, power stones or the leaderboard is answered 503 and changes
\* no store, while project reads and writes are served from the local file
\* and are never answered 503.
C25_UnavailableWithoutStore ==
    /\ [](~mongoUri => (res.status # 503 /\ mongoProjects = {}))
    /\ [][~mongoUri =>
            /\ ValidStoneWrite => (stones'.status = 503 /\ stones'.docs = stones.docs)
            /\ ValidHighlightWrite =>
                  (highlights'.status = 503 /\ highlights'.docs = highlights.docs)
            /\ ValidScoreWrite => (board'.status = 503 /\ board'.docs = board.docs)
            /\ (ValidStoneWrite \/ ValidHighlightWrite \/ ValidScoreWrite)
                  => UNCHANGED storeVars
            /\ (res' # res /\ res'.op = "GET /api/projects")
                  => (res'.status = 200 /\ Returned(body') \subseteq Returned(fileProjects))]_vars
\* the three stores have all answered 503 and a project was created in the file
C25_Witness ==
    /\ ~mongoUri
    /\ stones # NoStones /\ stones.status = 503
    /\ highlights # NoHighlights /\ highlights.status = 503
    /\ board # NoBoard /\ board.status = 503
    /\ res.op = "POST /api/projects" /\ res.status = 201
    /\ fileProjects # <<>>

(***************************************************************************)
(* Claims about the projects on the file backend                           *)
(***************************************************************************)
\* C26: on the file backend, whatever data/projects.json holds, every
\* project request ends with a status of the documented taxonomy and no
\* exception escapes its handler.
C26_FileFailuresAbsorbed ==
    (~ensureMongo /\ res.op # "none") =>
        /\ ~res.escaped
        /\ res.status \in {200, 201, 204, 400, 401, 404, 409, 500, 503}

\* the projects array of the file as the fallback reads it, under ?type=t
FileUnder(t) ==
    LET arr == IF fileShape = "ok" THEN fileProjects ELSE <<>>
    IN  IF t \in {"flagship", "existing", "upcoming"}
        THEN SelectSeq(arr, LAMBDA p : p.type = t) ELSE arr
StoreUnder(t) ==
    IF t \in {"flagship", "existing", "upcoming"}
    THEN {d \in mongoProjects : d.type = t} ELSE mongoProjects
\* C27: in serverless with the document store connected, GET /api/projects
\* answers the store's result when it is non-empty and otherwise the file's
\* projects under the same type filter, never a mix of the two.
C27_StoreThenFile ==
    [][\A t \in QueryTypes :
          (/\ res'.op = "GET /api/projects"
           /\ variant = "serverless" /\ mongoUri
           /\ GetProjects(t))
          => IF StoreUnder(t) # {}
             THEN /\ Returned(body') = StoreUnder(t)
                  /\ Len(body') = Cardinality(StoreUnder(t))
             ELSE body' = FileUnder(t)]_vars
\* the store had nothing of the type asked for and the file's record was answered,
\* while the store held a record of another type
C27_Witness ==
    /\ res.op = "GET /api/projects"
    /\ variant = "serverless" /\ mongoUri
    /\ mongoProjects # {}
    /\ body # <<>>
    /\ \A i \in 1..Len(body) : body[i] \notin mongoProjects

(***************************************************************************)
(* Claims about the built-in defaults                                      *)
(***************************************************************************)
\* the six built-in stones, one for each slot 1..6
SixDefaults(out) ==
    /\ Len(out) = 6
    /\ \A k \in 1..6 : out[k] \in StoneDefaults /\ out[k].slot = k
\* the answer is the built-in bulletin, without archives
DefaultServed(out) == out.latest.title = "default"
\* a bulletin of language l is held by the collection or by the file
BulletinHeld(l) ==
    \/ mongoUri /\ \E d \in bulletins.docs : d.lang = l
    \/ \E i \in 1..Len(bulletins.file) : bulletins.file[i].lang = l
HeldBulletins ==
    (IF mongoUri THEN bulletins.docs ELSE {})
    \cup {bulletins.file[i] : i \in 1..Len(bulletins.file)}

\* C28: defaults are served only when the stores hold nothing to return, and
\* never mixed with persisted records: GET /api/power-stones answers exactly
\* the persisted stones when there is one and exactly the six defaults
\* otherwise; GET /api/bulletins answers the built-in bulletin only when
\* neither the collection nor the file holds a bulletin of the language.
C28_DefaultsOnlyWhenEmpty ==
    /\ stones.op = "GET /api/power-stones" =>
          IF mongoUri /\ stones.docs # {}
          THEN /\ Returned(stones.out) = stones.docs
               /\ Len(stones.out) = Cardinality(stones.docs)
          ELSE SixDefaults(stones.out)
    /\ bulletins.op = "GET /api/bulletins" =>
          LET l == toLowerCase(IF bulletins.lang = "" THEN "ta" ELSE bulletins.lang)
          IN  IF DefaultServed(bulletins.out)
              THEN ~BulletinHeld(l) /\ bulletins.out.archives = <<>>
              ELSE /\ BulletinHeld(l)
                   /\ bulletins.out.latest \in HeldBulletins
                   /\ \A i \in 1..Len(bulletins.out.archives) :
                         \E d \in HeldBulletins : d.id = bulletins.out.archives[i].id
\* the defaults were answered for the stones of an emptied collection, and a
\* stored bulletin for a language that has one
C28_Witness ==
    /\ stones.op = "GET /api/power-stones" /\ mongoUri
    /\ stones.docs = {} /\ SixDefaults(stones.out)
    /\ bulletins.op = "GET /api/bulletins" /\ bulletins.lang = "en"
    /\ ~DefaultServed(bulletins.out)

(***************************************************************************)
(* Further claims about the leaderboard                                    *)
(***************************************************************************)
\* the limit L of a request: the parameter clamped to 1..100, 10 when it is
\* absent, zero or not a number
LimitFor(str) ==
    CASE str \in {"", "0", "abc"} -> 10
      [] str = "1" -> 1
      [] str = "2" -> 2
      [] str = "-5" -> 1
\* the game a request asks for; "" when it asks for none
GameFor(str) == IF str = " Snake " THEN "snake" ELSE str
\* an entry as the response shows it
EntryShown(e) ==
    [id |-> e.id, game |-> e.game, nickname |-> e.nickname, score |-> e.score,
     createdAt |-> e.createdAt]
\* a is not below b in the order score descending, createdAt descending
NotBelow(a, b) == a.score > b.score \/ (a.score = b.score /\ a.createdAt >= b.createdAt)
\* out is the first limit entries of recs in that order
FirstOfRanking(out, recs, limit) ==
    LET timesIn(v) == Cardinality({i \in 1..Len(out) : out[i] = v})
        timesOf(v) == Cardinality({e \in recs : EntryShown(e) = v})
    IN  /\ Len(out) = IF Cardinality(recs) < limit THEN Cardinality(recs) ELSE limit
        /\ \A i, j \in 1..Len(out) : i < j => NotBelow(out[i], out[j])
        /\ \A i \in 1..Len(out) : timesIn(out[i]) <= timesOf(out[i])
        /\ \A e \in recs :
              timesIn(EntryShown(e)) < timesOf(EntryShown(e))
                  => \A i \in 1..Len(out) : NotBelow(out[i], e)

UpdateFrame(id, b) ==
    IF id \in StoredIds
    THEN /\ StoredIds' = StoredIds
         /\ {p \in StoredProjects' : p.id # id} = {p \in StoredProjects : p.id # id}
         /\ b.type = "" =>
               {p.type : p \in {q \in StoredProjects' : q.id = id}}
                   = {p.type : p \in {q \in StoredProjects : q.id = id}}
    ELSE res'.status = 404 /\ UNCHANGED storeVars

\* C30: an (authenticated) update of a stored project never changes its id,
\* keeps its stored type when the request omits the type, and changes no
\* other record; an update of an id that is not stored is answered 404 and
\* leaves the store unchanged.
C30_UpdateFrame ==
    [][\A h \in SpecHeaders, id \in AllIds, b \in UpdateBodies :
          (/\ res'.op = "PUT /api/projects/:id"
           /\ basicAuth(h)
           /\ PutProject(h, id, b))
          => UpdateFrame(id, b)]_vars
\* the same on a store that can be read: the collection, or a file that is
\* missing, unparseable or holds a projects array
C30_UpdateFrameReadable ==
    [][\A h \in SpecHeaders, id \in AllIds, b \in UpdateBodies :
          (/\ res'.op = "PUT /api/projects/:id"
           /\ basicAuth(h)
           /\ (ensureMongo \/ fileShape # "noarray")
           /\ PutProject(h, id, b))
          => UpdateFrame(id, b)]_vars

====
